---- MODULE Spec2Model ----
(***************************************************************************)
(* Conversation and presence subsystem of byte-buddy-talk: the backing     *)
(* store (chat_rooms, chat_participants, messages, profiles with their     *)
(* row-level policies, triggers, handle_new_user and update_user_status),  *)
(* the sidebar's createDirectChat and fetchChatRooms, the chat window's    *)
(* fetchMessages / sendMessage / live subscription with its cleanup on a   *)
(* room switch and at unmount, the room labels of both components, and the *)
(* useAuth hook.                                                           *)
(***************************************************************************)
EXTENDS Integers, Sequences, FiniteSets, Bags, TLC

VARIABLES
    now,            \* the store's clock, the value of now()
    rooms,          \* chat_rooms: sequence of rows, a row's id is its index
    participants,   \* chat_participants: set of <<chat_room_id, user_id>>
    intent,         \* history: for each room row, the peer createDirectChat made it for
    dc,             \* the createDirectChat calls in progress, a bag
    selected,       \* per client: the selectedChatId set by onChatSelect
    lastDC,         \* history: how the createDirectChat call that ended last ended
    msgs,           \* messages: sequence of rows in insertion order, id is the index
    view,           \* per client: the ChatWindow state
    chans,          \* realtime channels created by ChatWindow's effect
    notes,          \* postgres_changes events not yet handed to their callback
    fetches,        \* fetchMessages calls in flight
    sends,          \* messages inserts issued by sendMessage and not yet resolved
    lastSend,       \* history: the latest sendMessage call or insert request
    lastRefetch,    \* history: how the event-triggered fetchMessages that ended last ended
    auth,           \* the useAuth hook of one client: its state, pending callbacks, signOut calls
    session,        \* the identity of the session the auth provider holds, if any
    rpcs,           \* update_user_status calls issued, not awaited, not yet applied: a bag
    profiles,       \* profiles: per user the row's columns (for handle_new_user: the rows)
    authLog,        \* history: the requests of the signOut calls, in order
    onlineAt,       \* history: per user the times at which an online write was applied
    signups,        \* handle_new_user executions, one per new identity
    uncommitted,    \* profiles rows inserted by transactions that have not committed
    sidebar,        \* per client: the ChatSidebar state
    sideFetches,    \* requests of ChatSidebar in flight
    rendered,       \* a room header: the room, the user and the labels computed for them
    chanLog,        \* history: the subscribe and removeChannel calls, in order
    closed,         \* the clients whose ChatWindow has been unmounted
    msgBy           \* history: for each messages row, who inserted it and as what

vars == <<now, rooms, participants, intent, dc, selected, lastDC, msgs, view, chans,
          notes, fetches, sends, lastSend, lastRefetch, auth, session, rpcs,
          profiles, authLog, onlineAt, signups, uncommitted, sidebar,
          sideFetches,
          rendered, chanLog, closed, msgBy>>

directVars == <<rooms, participants, intent, dc, selected, lastDC>>
chatVars == <<now, msgs, view, chans, notes, fetches, sends, lastSend, lastRefetch>>
authVars == <<auth, session, rpcs, authLog, onlineAt>>
histVars == <<rendered, chanLog, closed, msgBy>>
moreVars == <<signups, uncommitted, sidebar, sideFetches, histVars>>

----------------------------------------------------------------------------
(* Bounds and input sets *)

Users == {"A", "B", "C"}
NoUser == "none"
NoRoom == 0

Callers == {"A", "B"}   \* the clients that run createDirectChat
MaxCreated == 2     \* chat_rooms rows inserted by createDirectChat
MaxCalls == 2       \* createDirectChat calls in progress
MaxMsgs == 1        \* messages rows, inserted or in flight
MaxListed == 2      \* messages rows where the order of a listing is examined
MaxTime == 1        \* clock values 0..MaxTime
MaxFetch == 1       \* fetchMessages calls in flight
MaxSignOuts == 1    \* signOut calls
MaxRpcs == 2        \* update_user_status calls in flight that nobody awaits
MaxSwitches == 3    \* changes of the chatRoomId prop of one chat window
MaxRequests == 4    \* fetchChatRooms and fetchProfiles requests in flight

----------------------------------------------------------------------------
(* The store: schema and row-level policies *)

RECURSIVE SetToSeq(_)
SetToSeq(S) ==
    IF S = {} THEN <<>>
    ELSE LET x == CHOOSE y \in S : TRUE IN <<x>> \o SetToSeq(S \ {x})

\* chat_participants rows of one room
Parts(ps, r) == {p[2] : p \in {q \in ps : q[1] = r}}

\* a role row-level security does not apply to (the owner of the tables, the
\* service key): ENABLE ROW LEVEL SECURITY is given without FORCE
ServiceRole == "service_role"

\* the tables the USING expression of a table's SELECT policy queries
SelectPolicyQueries(t) ==
    IF t \in {"chat_rooms", "messages", "chat_participants"}
    THEN {"chat_participants"}
    ELSE {}

\* the tables the WITH CHECK expression of a table's INSERT policy queries
InsertPolicyQueries(t) == IF t = "messages" THEN {"chat_participants"} ELSE {}

\* a query on t by a client role: the SELECT policy of t is added to it, and so
\* are the policies of the tables that policy queries; the expansion fails
\* ("infinite recursion detected in policy for relation") when it comes to a
\* table whose policy it is in the course of adding
RECURSIVE Expands(_, _)
Expands(t, active) ==
    /\ t \notin active
    /\ \A q \in SelectPolicyQueries(t) : Expands(q, active \cup {t})

\* a SELECT of a client role on the tables ts is answered with rows, not an error
SelectPlanned(ts) == \A t \in ts : Expands(t, {})

\* an INSERT of a client role into t is checked against its policy without an
\* error; with RETURNING the SELECT policy of t is added as well
InsertPlanned(t, returning) ==
    /\ \A q \in InsertPolicyQueries(t) : Expands(q, {})
    /\ returning => Expands(t, {})

\* what a policy says of one row: "pass", "fail", or "error" when the statement
\* cannot be planned
Verdict(b) == IF b THEN "pass" ELSE "fail"

\* policy "Users can view participants in their chat rooms"; its subquery reads
\* chat_participants, to which this policy applies again
ParticipantSelectPolicy(ps, uid, p) ==
    IF ~SelectPlanned({"chat_participants"}) THEN "error"
    ELSE Verdict(\/ p[2] = uid
                 \/ \E cp \in ps : cp[1] = p[1] /\ cp[2] = uid)

\* the rows of a subquery on chat_participants that uid's statement sees
VisibleParticipants(ps, uid) ==
    {p \in ps : ParticipantSelectPolicy(ps, uid, p) = "pass"}

\* policy "Users can view chat rooms they participate in"
RoomSelectPolicy(ps, uid, r) ==
    IF ~SelectPlanned({"chat_rooms"}) THEN "error"
    ELSE Verdict(\E p \in VisibleParticipants(ps, uid) : p[1] = r /\ p[2] = uid)

\* policy "Users can create chat rooms"
RoomInsertPolicy(uid, row) == Verdict(uid = row.created_by)

\* policy "Users can join chat rooms"
JoinPolicy(uid, p) == Verdict(uid = p[2])

\* one INSERT statement: every row passes the policy or none is added
InsertParticipants(ps, uid, rows) ==
    IF /\ InsertPlanned("chat_participants", FALSE)
       /\ \A p \in rows : JoinPolicy(uid, p) = "pass" /\ p \notin ps
    THEN [ok |-> TRUE, ps |-> ps \cup rows]
    ELSE [ok |-> FALSE, ps |-> ps]

\* policy "Users can view messages in their chat rooms"
MessageSelectPolicy(ps, uid, m) ==
    IF ~SelectPlanned({"messages"}) THEN "error"
    ELSE Verdict(\E p \in VisibleParticipants(ps, uid) :
                     p[1] = m.chat_room_id /\ p[2] = uid)

MessageInsertPolicyOpen(ps, uid, m) == Verdict(uid = m.sender_id)

\* policy "Users can send messages to their chat rooms"
MessageInsertPolicy(ps, uid, m) ==
    IF ~InsertPlanned("messages", FALSE) THEN "error"
    ELSE Verdict(/\ uid = m.sender_id
                 /\ \E p \in VisibleParticipants(ps, uid) :
                        p[1] = m.chat_room_id /\ p[2] = uid)

\* the relations the API can embed along: the foreign keys between the tables of
\* the public schema (profiles and chat_participants both reference auth.users
\* only, so neither embeds the other)
ForeignKeys ==
    {<<"messages", "chat_rooms">>, <<"chat_participants", "chat_rooms">>}

Embeddable(parent, child) ==
    <<child, parent>> \in ForeignKeys \/ <<parent, child>> \in ForeignKeys

----------------------------------------------------------------------------
(* ChatSidebar.createDirectChat *)

NoOutcome == [outcome |-> "none", self |-> NoUser, other |-> NoUser, room |-> NoRoom,
              solo |-> TRUE, crossed |-> FALSE, pair |-> {}, qok |-> TRUE]

\* non-group rooms whose participant set is exactly {a, b}
PairRooms(rs, ps, a, b) ==
    {r \in 1..Len(rs) : ~rs[r].is_group /\ Parts(ps, r) = {a, b}}

\* the existence query: rows of chat_rooms visible to self, is_group = false, inner
\* join on the participant rows visible to self whose user_id is in (self, other).
\* <<>> is the answer without data (the query failed), <<rows>> the one with data
ExistingChat(rs, ps, self, other) ==
    IF ~SelectPlanned({"chat_rooms", "chat_participants"}) THEN <<>>
    ELSE <<{r \in 1..Len(rs) :
               /\ RoomSelectPolicy(ps, self, r) = "pass"
               /\ ~rs[r].is_group
               /\ \E p \in VisibleParticipants(ps, self) :
                      p[1] = r /\ p[2] \in {self, other}}>>

\* .insert({...}).select().single() on chat_rooms: INSERT ... RETURNING, to which
\* the INSERT policy and, for the returned row, the SELECT policy apply
InsertRoomReturning(ps, uid, row, id) ==
    IF ~InsertPlanned("chat_rooms", TRUE) THEN "error"
    ELSE Verdict(/\ RoomInsertPolicy(uid, row) = "pass"
                 /\ RoomSelectPolicy(ps, uid, id) = "pass")

\* a request of the sidebar in flight: fetchChatRooms or fetchProfiles
SideFetch(u, fn) == [owner |-> u, fn |-> fn]

\* the createDirectChat calls in progress stay within n
CallsWithin(n) == BagCardinality(dc') <= n

RECURSIVE Copies(_, _)
Copies(B, S) ==
    IF S = {} THEN 0
    ELSE LET t == CHOOSE x \in S : TRUE IN CopiesIn(t, B) + Copies(B, S \ {t})

\* the user clicks a profile of the dialog: a call starts and its existence query
\* is issued. Nothing keeps a client from a click while a call of its own is in
\* progress (the dialog closes when a call ends with a room selected). History:
\* solo, no other call was in progress during this one; crossed, a call of other
\* for self was
CreateDirectChat_Call(self, other) ==
    /\ other # self
    /\ LET inProgress == BagToSet(dc)
           Crosses(t) == t.self = other /\ t.other = self
           Seen(t) == [t EXCEPT !.solo = FALSE, !.crossed = @ \/ Crosses(t)]
           call == [self |-> self, other |-> other, pc |-> "query",
                    room |-> NoRoom, qok |-> TRUE,
                    solo |-> inProgress = {},
                    crossed |-> \E t \in inProgress : Crosses(t),
                    pair |-> PairRooms(rooms, participants, self, other)]
           seen == [x \in {Seen(t) : t \in inProgress} |->
                       Copies(dc, {t \in inProgress : Seen(t) = x})]
       IN dc' = seen (+) SetToBag({call})
    /\ UNCHANGED <<rooms, participants, intent, selected, lastDC>>
    /\ UNCHANGED <<chatVars, authVars, profiles, moreVars>>

\* the call c goes on as d, or ends when d is no call
Moved(c, d) == (dc (-) SetToBag({c})) (+) SetToBag(d)

Ended(c, how, r) ==
    [outcome |-> how, self |-> c.self, other |-> c.other, room |-> r,
     solo |-> c.solo, crossed |-> c.crossed, pair |-> c.pair, qok |-> c.qok]

\* the existence query resolves; ok = FALSE is a request that failed on its way.
\* The code does not read the error: without data existingChat is null and the
\* create path runs
CreateDirectChat_Query(c, ok) ==
    /\ BagIn(c, dc)
    /\ c.pc = "query"
    /\ LET answer == ExistingChat(rooms, participants, c.self, c.other)
           existingChat == IF ok /\ answer # <<>> THEN answer[1] ELSE {}
       IN IF existingChat # {}
          THEN \E first \in existingChat :
                   /\ selected' = [selected EXCEPT ![c.self] = first]
                   /\ lastDC' = Ended(c, "found", first)
                   /\ dc' = Moved(c, {})
          ELSE /\ dc' = Moved(c, {[c EXCEPT !.pc = "insertRoom", !.qok = ok]})
               /\ UNCHANGED <<selected, lastDC>>
    /\ UNCHANGED <<rooms, participants, intent>>
    /\ UNCHANGED <<chatVars, authVars, profiles, moreVars>>

CreateDirectChat_RoomWithParticipants(c, ok) ==
    /\ BagIn(c, dc)
    /\ c.pc = "insertRoom"
    /\ Cardinality({r \in 1..Len(intent) : intent[r] # NoUser}) < MaxCreated
    /\ rooms' = Append(rooms, [is_group |-> FALSE, created_by |-> c.self,
                               updated_at |-> now])
    /\ intent' = Append(intent, c.other)
    /\ participants' = participants
                           \cup {<<Len(rooms) + 1, c.self>>, <<Len(rooms) + 1, c.other>>}
    /\ selected' = [selected EXCEPT ![c.self] = Len(rooms) + 1]
    /\ lastDC' = Ended(c, "created", Len(rooms) + 1)
    /\ dc' = Moved(c, {})
    /\ UNCHANGED <<chatVars, authVars, profiles, moreVars>>

\* the chat_rooms insert resolves: the row is kept and returned, or the store
\* answers with an error ("roomDenied"), or the request failed ("roomError")
CreateDirectChat_Room(c, ok) ==
    /\ BagIn(c, dc)
    /\ c.pc = "insertRoom"
    /\ LET row == [is_group |-> FALSE, created_by |-> c.self, updated_at |-> now]
           id == Len(rooms) + 1
       IN IF ok /\ InsertRoomReturning(participants, c.self, row, id) = "pass"
          THEN /\ Cardinality({r \in 1..Len(intent) : intent[r] # NoUser}) < MaxCreated
               /\ rooms' = Append(rooms, row)
               /\ intent' = Append(intent, c.other)
               /\ dc' = Moved(c, {[c EXCEPT !.pc = "insertParts", !.room = id]})
               /\ UNCHANGED lastDC
          ELSE /\ lastDC' = Ended(c, IF ok THEN "roomDenied" ELSE "roomError", NoRoom)
               /\ dc' = Moved(c, {})
               /\ UNCHANGED <<rooms, intent>>
    /\ UNCHANGED <<participants, selected>>
    /\ UNCHANGED <<chatVars, authVars, profiles, moreVars>>

\* the chat_participants insert resolves; ok = FALSE is a request that failed on
\* its way
CreateDirectChat_Participants(c, ok) ==
    /\ BagIn(c, dc)
    /\ c.pc = "insertParts"
    /\ LET newRoom == c.room
           res == InsertParticipants(participants, c.self,
                                     {<<newRoom, c.self>>, <<newRoom, c.other>>})
       IN IF ok /\ res.ok
          THEN /\ participants' = res.ps
               /\ selected' = [selected EXCEPT ![c.self] = newRoom]
               /\ lastDC' = Ended(c, "created", newRoom)
               /\ sideFetches' = sideFetches (+) SetToBag({SideFetch(c.self, "fetchChatRooms")})
          ELSE /\ lastDC' = Ended(c, IF ok THEN "denied" ELSE "partError", newRoom)
               /\ UNCHANGED <<participants, selected, sideFetches>>
    /\ dc' = Moved(c, {})
    /\ UNCHANGED <<rooms, intent, signups, uncommitted, sidebar, histVars>>
    /\ UNCHANGED <<chatVars, authVars, profiles>>

----------------------------------------------------------------------------
(* Text: the input value and String.prototype.trim *)

Whitespace == {" ", "\n"}

\* the input values the user can type: sequences of characters
Texts == {<<>>, <<" ">>, <<" ", "h", "\n">>}

RECURSIVE TrimStart(_)
TrimStart(t) ==
    IF t # <<>> /\ Head(t) \in Whitespace THEN TrimStart(Tail(t)) ELSE t

RECURSIVE TrimEnd(_)
TrimEnd(t) ==
    IF t # <<>> /\ t[Len(t)] \in Whitespace THEN TrimEnd(SubSeq(t, 1, Len(t) - 1)) ELSE t

TrimNothing(t) == t

\* newMessage.trim()
Trim(t) == TrimEnd(TrimStart(t))

----------------------------------------------------------------------------
(* The store: messages *)

\* triggers that fire on an insert into messages and touch chat_rooms: none is
\* defined (update_chat_rooms_updated_at fires on an update of chat_rooms only)
RoomsAfterMessageInsert(rs, m) == rs

RoomIds(ms, r) == {i \in 1..Len(ms) : ms[i].chat_room_id = r}

RECURSIVE Perms(_)
Perms(S) ==
    IF S = {} THEN {<<>>}
    ELSE UNION {{<<x>> \o q : q \in Perms(S \ {x})} : x \in S}

\* .order('created_at', { ascending: true }): the rows in an order ascending by
\* created_at; the order of rows with equal created_at is not determined
OrderByCreatedAt(ms, ids) ==
    {q \in Perms(ids) :
        \A i \in 1..Len(q), j \in 1..Len(q) :
            i < j => ms[q[i]].created_at <= ms[q[j]].created_at}

\* the answers with data to select * from messages where chat_room_id = r, as
\* uid; there is none when the query fails
MessagesOfRoom(ms, ps, uid, r) ==
    IF ~SelectPlanned({"messages"}) THEN {}
    ELSE OrderByCreatedAt(ms, {i \in RoomIds(ms, r) :
                                   MessageSelectPolicy(ps, uid, ms[i]) = "pass"})

----------------------------------------------------------------------------
(* ChatWindow *)

Viewers == {"A", "B"}    \* the clients with a chat window
Typists == {"A"}         \* the clients that type and send
ChatRooms == {1}         \* the rooms the chat windows open

ClosedView == [chatRoomId |-> NoRoom, messages |-> <<>>, newMessage |-> <<>>,
               sending |-> FALSE]

NoSend == [by |-> NoUser, text |-> <<>>, issued |-> FALSE]
NoRefetch == [owner |-> NoUser, trigger |-> 0, result |-> "none"]

\* profilesMap[message.sender_id] || { display_name: 'Unknown User', ... }
SenderOf(prof, s) ==
    IF s \in DOMAIN prof THEN prof[s].display_name ELSE "Unknown User"

\* formattedMessages: each row with its sender's profile joined
Formatted(ms, prof, data) ==
    [k \in 1..Len(data) |->
        [id |-> data[k],
         chat_room_id |-> ms[data[k]].chat_room_id,
         sender_id |-> ms[data[k]].sender_id,
         content |-> ms[data[k]].content,
         created_at |-> ms[data[k]].created_at,
         sender |-> SenderOf(prof, ms[data[k]].sender_id)]]

\* a fetchMessages call in flight: trig is the row whose event started it (0 for
\* the effect), n tells the calls of one effect run after another apart
NewFetch(u, r, trig, n) == [owner |-> u, room |-> r, phase |-> "messages",
                            data |-> <<>>, trigger |-> trig, seq |-> n]

NoCleanup(cs, u) == {}

\* the cleanup of the effect run of u's window: supabase.removeChannel(channel)
\* for the channel that run created
Cleanup(cs, u) == {c \in cs : c.owner = u}

ChanEvent(ev, r) == [ev |-> ev, room |-> r]

\* the log after removeChannel was called for each channel of cs
LogRemoved(log, cs) ==
    log \o [k \in 1..Cardinality(cs) |-> ChanEvent("remove", SetToSeq(cs)[k].room)]

\* the fetchMessages calls in flight stay within n
FetchesWithin(n) == Cardinality(fetches') <= n

Subscribes(log) == {k \in 1..Len(log) : log[k].ev = "subscribe"}

\* the chatRoomId prop changes to r: the previous effect's cleanup removes its
\* channel, then the effect calls fetchMessages and subscribes a new channel
SelectChat(u, r) ==
    /\ u \notin closed
    /\ r # view[u].chatRoomId
    /\ r \in 1..Len(rooms)
    /\ view' = [view EXCEPT ![u].chatRoomId = r]
    /\ fetches' = fetches \cup
                      {NewFetch(u, r, 0, Cardinality(Subscribes(chanLog[u])) + 1)}
    /\ chans' = (chans \ Cleanup(chans, u))
                    \cup {[owner |-> u, room |-> r, state |-> "joining"]}
    /\ chanLog' = [chanLog EXCEPT ![u] =
                       Append(LogRemoved(chanLog[u], Cleanup(chans, u)),
                              ChanEvent("subscribe", r))]
    /\ UNCHANGED <<now, msgs, notes, sends, lastSend, lastRefetch>>
    /\ UNCHANGED <<directVars, authVars, profiles>>
    /\ UNCHANGED <<signups, uncommitted, sidebar, sideFetches, rendered, closed, msgBy>>

\* the window is unmounted: the cleanup of its last effect run removes the
\* channel; the component's state is gone
Unmount(u) ==
    /\ u \notin closed
    /\ closed' = closed \cup {u}
    /\ view' = [view EXCEPT ![u] = ClosedView]
    /\ chans' = chans \ Cleanup(chans, u)
    /\ chanLog' = [chanLog EXCEPT ![u] = LogRemoved(chanLog[u], Cleanup(chans, u))]
    /\ UNCHANGED <<now, msgs, notes, fetches, sends, lastSend, lastRefetch>>
    /\ UNCHANGED <<directVars, authVars, profiles>>
    /\ UNCHANGED <<signups, uncommitted, sidebar, sideFetches, rendered, msgBy>>

\* the realtime server acknowledges .subscribe()
Subscribed(c) ==
    /\ c \in chans
    /\ c.state = "joining"
    /\ chans' = (chans \ {c}) \cup {[c EXCEPT !.state = "joined"]}
    /\ UNCHANGED <<now, msgs, view, notes, fetches, sends, lastSend, lastRefetch>>
    /\ UNCHANGED <<directVars, authVars, profiles, moreVars>>

\* onChange of the input: setNewMessage
TypeText(u, t) ==
    /\ view[u].chatRoomId # NoRoom
    /\ t # view[u].newMessage
    /\ view' = [view EXCEPT ![u].newMessage = t]
    /\ UNCHANGED <<now, msgs, chans, notes, fetches, sends, lastSend, lastRefetch>>
    /\ UNCHANGED <<directVars, authVars, profiles, moreVars>>

CanSendWhileSending(text, sending) == Trim(text) # <<>>

\* the guard of sendMessage: not (!newMessage.trim() || sending)
CanSend(text, sending) == Trim(text) # <<>> /\ ~sending

\* sendMessage up to its await: the guard, setSending(true), the insert request
\* (seq tells the requests in flight apart)
SendMessage(u) ==
    /\ view[u].chatRoomId # NoRoom
    /\ LET text == view[u].newMessage
           go == CanSend(text, view[u].sending)
       IN /\ lastSend' = [by |-> u, text |-> text, issued |-> go]
          /\ IF go
             THEN /\ view' = [view EXCEPT ![u].sending = TRUE]
                  /\ sends' = sends \cup {[by |-> u,
                                           chat_room_id |-> view[u].chatRoomId,
                                           sender_id |-> u,
                                           content |-> Trim(text),
                                           seq |-> Len(msgs) + Cardinality(sends) + 1]}
             ELSE UNCHANGED <<view, sends>>
    /\ UNCHANGED <<now, msgs, chans, notes, fetches, lastRefetch>>
    /\ UNCHANGED <<directVars, authVars, profiles, moreVars>>

\* postgres_changes INSERT events: one for each joined channel filtered on the
\* row's room whose owner may read the row
EventsFor(ps, cs, id, m) ==
    {[owner |-> c.owner, room |-> c.room, msg |-> id] :
        c \in {d \in cs : /\ d.state = "joined"
                          /\ d.room = m.chat_room_id
                          /\ MessageSelectPolicy(ps, d.owner, m) = "pass"}}

InputCleared(text, failed) == <<>>

\* if (!error) setNewMessage(""): the input after the insert has answered
InputAfterSend(text, failed) == IF failed THEN text ELSE <<>>

\* the history entry of a row: the identity whose request inserted it, whether
\* that identity had a participant row of the room then, and the clients whose
\* window was open on the room then
InsertedBy(ps, cs, uid, row) ==
    [caller |-> uid, member |-> <<row.chat_room_id, uid>> \in ps,
     watched |-> {c.owner : c \in {d \in cs : d.room = row.chat_room_id}}]

\* the insert resolves: the store adds the row or rejects it, then sendMessage
\* runs from its await to the end (how = "ok", "error" or "throw")
SendMessage_Resolve(req, how) ==
    /\ req \in sends
    /\ sends' = sends \ {req}
    /\ LET row == [chat_room_id |-> req.chat_room_id, sender_id |-> req.sender_id,
                   content |-> req.content, created_at |-> now]
           added == how = "ok" /\ MessageInsertPolicy(participants, req.by, row) = "pass"
       IN /\ IF added
             THEN /\ msgs' = Append(msgs, row)
                  /\ rooms' = RoomsAfterMessageInsert(rooms, row)
                  /\ notes' = notes \cup EventsFor(participants, chans, Len(msgs) + 1, row)
                  /\ msgBy' = Append(msgBy, InsertedBy(participants, chans, req.by, row))
             ELSE UNCHANGED <<msgs, rooms, notes, msgBy>>
          /\ view' = [view EXCEPT ![req.by].sending = FALSE,
                                  ![req.by].newMessage =
                                      InputAfterSend(view[req.by].newMessage, ~added)]
    /\ UNCHANGED <<now, chans, fetches, lastSend, lastRefetch>>
    /\ UNCHANGED <<participants, intent, dc, selected, lastDC, authVars, profiles>>
    /\ UNCHANGED <<signups, uncommitted, sidebar, sideFetches, rendered, chanLog, closed>>

\* an INSERT of a messages row reaches the store, from a client whose session is
\* uid's or from the service role: the row is added when the insert policy
\* passes, or without a check for the service role
Store_InsertMessage(uid, r, s) ==
    /\ r \in 1..Len(rooms)
    /\ LET row == [chat_room_id |-> r, sender_id |-> s, content |-> <<"h">>,
                   created_at |-> now]
       IN IF uid = ServiceRole \/ MessageInsertPolicy(participants, uid, row) = "pass"
          THEN /\ msgs' = Append(msgs, row)
               /\ rooms' = RoomsAfterMessageInsert(rooms, row)
               /\ notes' = notes \cup EventsFor(participants, chans, Len(msgs) + 1, row)
               /\ msgBy' = Append(msgBy, InsertedBy(participants, chans, uid, row))
               /\ lastSend' = [by |-> uid, text |-> row.content, issued |-> TRUE]
          ELSE /\ UNCHANGED <<msgs, rooms, notes, msgBy>>
               /\ lastSend' = [by |-> uid, text |-> row.content, issued |-> FALSE]
    /\ UNCHANGED <<now, view, chans, fetches, sends, lastRefetch>>
    /\ UNCHANGED <<participants, intent, dc, selected, lastDC, authVars, profiles>>
    /\ UNCHANGED <<signups, uncommitted, sidebar, sideFetches, rendered, chanLog, closed>>

\* a request to insert uid's own chat_participants row of room r reaches the store
Store_Join(uid, r) ==
    /\ r \in 1..Len(rooms)
    /\ participants' = InsertParticipants(participants, uid, {<<r, uid>>}).ps
    /\ participants' # participants
    /\ UNCHANGED <<rooms, intent, dc, selected, lastDC>>
    /\ UNCHANGED <<chatVars, authVars, profiles, moreVars>>

\* the store's clock advances
Tick ==
    /\ now < MaxTime
    /\ now' = now + 1
    /\ UNCHANGED <<msgs, view, chans, notes, fetches, sends, lastSend, lastRefetch>>
    /\ UNCHANGED <<directVars, authVars, profiles, moreVars>>

\* an event reaches its channel's callback, which calls fetchMessages; an event
\* of a removed channel has no callback left
Deliver(n) ==
    /\ n \in notes
    /\ notes' = notes \ {n}
    /\ IF \E c \in chans : c.owner = n.owner /\ c.room = n.room /\ c.state = "joined"
       THEN fetches' = fetches \cup {NewFetch(n.owner, n.room, n.msg, 0)}
       ELSE UNCHANGED fetches
    /\ UNCHANGED <<now, msgs, view, chans, sends, lastSend, lastRefetch>>
    /\ UNCHANGED <<directVars, authVars, profiles, moreVars>>

Refetched(f, res) ==
    IF f.trigger = 0 THEN lastRefetch
    ELSE [owner |-> f.owner, trigger |-> f.trigger, result |-> res]

Cleared(list) == <<>>

\* the return after a query error: the list the state holds stays as it is
Retained(list) == list

\* fetchMessages: the messages query resolves, with data or (the store's error,
\* or ok = FALSE for a request that failed on its way) without
FetchMessages_Query(f, ok) ==
    /\ f \in fetches
    /\ f.phase = "messages"
    /\ IF ok /\ MessagesOfRoom(msgs, participants, f.owner, f.room) # {}
       THEN /\ \E data \in MessagesOfRoom(msgs, participants, f.owner, f.room) :
                   fetches' = (fetches \ {f})
                                  \cup {[f EXCEPT !.phase = "profiles", !.data = data]}
            /\ UNCHANGED <<view, lastRefetch>>
       ELSE /\ fetches' = fetches \ {f}
            /\ view' = [view EXCEPT ![f.owner].messages = Retained(@)]
            /\ lastRefetch' = Refetched(f, "failed")
    /\ UNCHANGED <<now, msgs, chans, notes, sends, lastSend>>
    /\ UNCHANGED <<directVars, authVars, profiles, moreVars>>

\* whether the list shows message id exactly once, with the row's content and sender
ShowsOnce(list, ms, id) ==
    /\ Cardinality({k \in 1..Len(list) : list[k].id = id}) = 1
    /\ \A k \in 1..Len(list) :
           list[k].id = id => /\ list[k].content = ms[id].content
                              /\ list[k].sender_id = ms[id].sender_id

\* setMessages(formattedMessages): the list is replaced
SetMessages(old, formattedMessages) == formattedMessages

\* fetchMessages: the profiles query resolves and setMessages runs (without
\* effect when the window has been unmounted)
FetchMessages_Profiles(f, ok) ==
    /\ f \in fetches
    /\ f.phase = "profiles"
    /\ fetches' = fetches \ {f}
    /\ IF ok
       THEN LET formattedMessages == Formatted(msgs, profiles, f.data)
                shown == IF f.owner \in closed THEN view[f.owner].messages
                         ELSE SetMessages(view[f.owner].messages, formattedMessages)
            IN /\ view' = [view EXCEPT ![f.owner].messages = shown]
               /\ lastRefetch' =
                      Refetched(f, IF ShowsOnce(shown, msgs, f.trigger)
                                   THEN "shown" ELSE "missing")
       ELSE /\ view' = [view EXCEPT ![f.owner].messages = Retained(@)]
            /\ lastRefetch' = Refetched(f, "failed")
    /\ UNCHANGED <<now, msgs, chans, notes, sends, lastSend>>
    /\ UNCHANGED <<directVars, authVars, profiles, moreVars>>

----------------------------------------------------------------------------
(* Seeded stores *)

Pairs == {{"A", "B"}, {"A", "C"}}

\* a store holding one direct room for each pair of P and one group room of all users
SeedMembers(P) == SetToSeq(P) \o <<Users>>

SeedRooms(P) ==
    LET mem == SeedMembers(P)
    IN [r \in 1..Len(mem) |->
           [is_group |-> Cardinality(mem[r]) > 2,
            created_by |-> CHOOSE u \in mem[r] : TRUE,
            updated_at |-> 0]]

SeedParticipants(P) ==
    LET mem == SeedMembers(P)
    IN UNION {{<<r, u>> : u \in mem[r]} : r \in 1..Len(mem)}

SeedProfiles ==
    [u \in Users |-> [username |-> u, display_name |-> u, is_online |-> FALSE,
                      last_seen |-> 0]]

InitDirectIdle ==
    /\ intent = [r \in 1..Len(rooms) |-> NoUser]
    /\ dc = EmptyBag
    /\ selected = [u \in Callers |-> NoRoom]
    /\ lastDC = NoOutcome

InitChatIdle ==
    /\ now = 0
    /\ msgs = <<>>
    /\ view = [u \in Users |-> 0]
    /\ chans = {}
    /\ notes = {}
    /\ fetches = {}
    /\ sends = {}
    /\ lastSend = NoSend
    /\ lastRefetch = NoRefetch

InitAuthIdle ==
    /\ auth = 0
    /\ session = NoUser
    /\ rpcs = EmptyBag
    /\ authLog = <<>>
    /\ onlineAt = [u \in Users |-> {}]

InitHistIdle ==
    /\ rendered = <<>>
    /\ chanLog = [u \in Viewers |-> <<>>]
    /\ closed = {}
    /\ msgBy = <<>>

InitMoreIdle ==
    /\ signups = <<>>
    /\ uncommitted = {}
    /\ sidebar = <<>>
    /\ sideFetches = EmptyBag
    /\ InitHistIdle

InitDirect ==
    /\ \E P \in SUBSET Pairs :
           /\ rooms = SeedRooms(P)
           /\ participants = SeedParticipants(P)
           /\ intent = [r \in 1..Len(SeedMembers(P)) |-> NoUser]
    /\ dc = EmptyBag
    /\ selected = [u \in Callers |-> NoRoom]
    /\ lastDC = NoOutcome
    /\ InitChatIdle
    /\ profiles = SeedProfiles
    /\ InitAuthIdle
    /\ InitMoreIdle

\* the calls of the clients; no chat_rooms insert is answered with a row, so no
\* call comes to its chat_participants insert
NextDirect ==
    \/ \E self \in Callers, other \in Callers :
           CreateDirectChat_Call(self, other) /\ CallsWithin(MaxCalls)
    \/ \E c \in BagToSet(dc), ok \in BOOLEAN : CreateDirectChat_Query(c, ok)
    \/ \E c \in BagToSet(dc), ok \in BOOLEAN : CreateDirectChat_Room(c, ok)

SpecDirect == InitDirect /\ [][NextDirect]_vars

----------------------------------------------------------------------------
(* The chat window of two participants of one store *)

InitChat ==
    /\ rooms = SeedRooms({{"A", "B"}})
    /\ participants = SeedParticipants({{"A", "B"}})
    /\ InitDirectIdle
    /\ now = 0
    /\ msgs = <<>>
    /\ view = [u \in Viewers |-> ClosedView]
    /\ chans = {}
    /\ notes = {}
    /\ fetches = {}
    /\ sends = {}
    /\ lastSend = NoSend
    /\ lastRefetch = NoRefetch
    /\ profiles = SeedProfiles
    /\ InitAuthIdle
    /\ InitMoreIdle

\* the requests in flight and the rows stay within n
Within(n) == Len(msgs) + Cardinality(sends') <= n

\* the rows stay within n
RowsWithin(n) == Len(msgs') <= n

\* the window of the sender alone: typing, sending, listing. The store answers
\* no insert with a row and no messages query with data, so no event is raised
\* and no fetchMessages call comes to its profiles query
NextSend ==
    \/ \E u \in Typists, r \in ChatRooms : SelectChat(u, r) /\ FetchesWithin(MaxFetch)
    \/ \E c \in chans : Subscribed(c)
    \/ \E u \in Typists, t \in Texts : TypeText(u, t)
    \/ \E u \in Typists : SendMessage(u) /\ Within(MaxListed)
    \/ \E req \in sends, how \in {"ok", "error", "throw"} : SendMessage_Resolve(req, how)
    \/ Tick
    \/ \E f \in fetches, ok \in BOOLEAN : FetchMessages_Query(f, ok)

SpecSend == InitChat /\ [][NextSend]_vars

\* the windows of both participants; the sender types one text and every
\* request reaches the store
NextChat ==
    \/ \E u \in Viewers, r \in ChatRooms : SelectChat(u, r) /\ FetchesWithin(MaxFetch)
    \/ \E c \in chans : Subscribed(c)
    \/ \E u \in Typists : TypeText(u, <<" ", "h", "\n">>)
    \/ \E u \in Typists : SendMessage(u) /\ Within(MaxMsgs)
    \/ \E req \in sends : SendMessage_Resolve(req, "ok")
    \/ \E f \in fetches : FetchMessages_Query(f, TRUE)

SpecChat == InitChat /\ [][NextChat]_vars

\* channels are acknowledged and requests that are out are answered
SpecChatFair ==
    /\ SpecChat
    /\ WF_vars(\E c \in chans : Subscribed(c))
    /\ WF_vars(\E req \in sends : SendMessage_Resolve(req, "ok"))
    /\ WF_vars(\E f \in fetches : FetchMessages_Query(f, TRUE))

----------------------------------------------------------------------------
(* Claims about createDirectChat, checked under SpecDirect *)

\* rooms createDirectChat made by a for b that lack a participant row for a or for b
Orphans(a, b) ==
    {r \in 1..Len(rooms) :
        /\ ~rooms[r].is_group
        /\ rooms[r].created_by = a
        /\ intent[r] = b
        /\ ~({a, b} \subseteq Parts(participants, r))}

\* C1: in every reachable state, for any two identities a and b at most one
\* non-group conversation has the participant set exactly {a, b}, also when the two
\* clients run createDirectChat for each other with their requests interleaved.
C1_AtMostOneDirectRoomPerPair ==
    \A a \in Users, b \in Users :
        a # b => Cardinality(PairRooms(rooms, participants, a, b)) <= 1

\* B's createDirectChat for A ran while A's for B was in progress, the pair had no
\* room, and both calls have ended.
C1_Witness ==
    /\ dc = EmptyBag
    /\ lastDC.self = "B" /\ lastDC.other = "A"
    /\ lastDC.crossed
    /\ lastDC.pair = {}

\* C2: a call that overlaps no other call, made when a direct room of the pair
\* exists and whose existence query reached the store, ends by selecting that room
\* and creates nothing.
C2_ResolverSelectsThePairRoom ==
    (lastDC.outcome # "none" /\ lastDC.solo /\ lastDC.qok /\ lastDC.pair # {})
        => (lastDC.outcome = "found" /\ lastDC.room \in lastDC.pair)

\* C3: a conversation selected as existing is non-group and has both self and
\* other among its participants; a room shared with a third identity is not selected.
C3_SelectedExistingHasBoth ==
    lastDC.outcome = "found"
        => /\ ~rooms[lastDC.room].is_group
           /\ {lastDC.self, lastDC.other} \subseteq Parts(participants, lastDC.room)

\* C4: a call that found no room and whose requests all reached the store ends
\* with one new row (is_group false, created_by self) whose participant set is
\* exactly {self, other}, and with that room selected.
C4_CreatedRoomHasBothParticipants ==
    (lastDC.pair = {} /\ lastDC.outcome \in {"created", "denied", "roomDenied"})
        => /\ lastDC.outcome = "created"
           /\ ~rooms[lastDC.room].is_group
           /\ rooms[lastDC.room].created_by = lastDC.self
           /\ Parts(participants, lastDC.room) = {lastDC.self, lastDC.other}
           /\ selected[lastDC.self] = lastDC.room

\* C5: a room whose participant insertion failed is rolled back or reused by the
\* next attempt for the same pair: the attempts of a for b never leave more than
\* one room lacking a participant row for a or for b.
C5_FailedRoomIsReconciled ==
    \A a \in Callers, b \in Users : Cardinality(Orphans(a, b)) <= 1

----------------------------------------------------------------------------
(* Claims about the chat window *)

IsBlank(t) == \A k \in 1..Len(t) : t[k] \in Whitespace

Joined(u, r) == \E c \in chans : c.owner = u /\ c.room = r /\ c.state = "joined"

\* C6: when A and B are participants of room 1 and B's window has an established
\* subscription for it, a message A sends is inserted and B's window comes to
\* list it, once, with its content and sender A.
C6_SentMessageReachesSubscriber ==
    (/\ lastSend = [by |-> "A", text |-> <<" ", "h", "\n">>, issued |-> TRUE]
     /\ {<<1, "A">>, <<1, "B">>} \subseteq participants
     /\ Joined("B", 1))
        ~> (/\ Len(view["B"].messages) = 1
            /\ view["B"].messages[1].sender_id = "A"
            /\ view["B"].messages[1].content = <<"h">>)

InOrder(ms, ids) ==
    \A i \in 1..Len(ids), j \in 1..Len(ids) :
        i < j => /\ ms[ids[i]].created_at <= ms[ids[j]].created_at
                 /\ ids[i] < ids[j]

\* C7: every listing of fetchMessages is in non-decreasing created_at order with
\* rows of equal created_at in insertion order, so a row appended after the others
\* is the last element of the next listing.
C7_ListingInInsertionOrder ==
    /\ \A f \in fetches : InOrder(msgs, f.data)
    /\ \A u \in Viewers :
           InOrder(msgs, [k \in 1..Len(view[u].messages) |-> view[u].messages[k].id])

\* C8: a sendMessage call made while the input is empty or whitespace-only adds
\* no message row, leaves the room rows (their updated_at) unchanged and issues
\* no insert request.
C8_BlankSendDoesNothing ==
    [][\A u \in Typists :
           (SendMessage(u) /\ IsBlank(view[u].newMessage))
               => (msgs' = msgs /\ rooms' = rooms /\ sends' = sends)]_vars

\* sendMessage was called on a whitespace-only input.
C8_Witness ==
    /\ lastSend.by \in Typists
    /\ lastSend.text = <<" ">>
    /\ ~lastSend.issued

\* C9: every insert of a message bumps the updated_at of its conversation: it is
\* then at least the message's created_at and greater than it was.
C9_AppendBumpsUpdatedAt ==
    [][Len(msgs') > Len(msgs)
           => LET m == msgs'[Len(msgs')]
              IN /\ rooms'[m.chat_room_id].updated_at >= m.created_at
                 /\ rooms'[m.chat_room_id].updated_at
                        > rooms[m.chat_room_id].updated_at]_vars

----------------------------------------------------------------------------
(* The store: update_user_status *)

update_user_status_Stamps(prof, user_uuid, online_status, t) ==
    [u \in DOMAIN prof |->
        IF u = user_uuid
        THEN [prof[u] EXCEPT !.is_online = online_status, !.last_seen = t]
        ELSE prof[u]]

\* update_user_status(user_uuid, online_status)
update_user_status(prof, user_uuid, online_status, t) ==
    [u \in DOMAIN prof |->
        IF u = user_uuid
        THEN [prof[u] EXCEPT !.is_online = online_status,
                             !.last_seen = IF online_status = FALSE THEN t
                                           ELSE prof[u].last_seen]
        ELSE prof[u]]

----------------------------------------------------------------------------
(* useAuth *)

Me == "A"    \* the identity whose client is modelled

Logged(call, ev, u) == [call |-> call, ev |-> ev, user |-> u]

NoCall == [pc |-> "idle", id |-> 0, user |-> NoUser]

Calls == 1..MaxSignOuts

UseAuth_EffectLoads ==
    /\ auth.due
    /\ auth' = [auth EXCEPT !.due = FALSE, !.effUser = auth.user,
                            !.probes = auth.probes + 1, !.loading = TRUE]
    /\ UNCHANGED <<session, rpcs, authLog, profiles, now, onlineAt>>
    /\ UNCHANGED <<directVars, moreVars, msgs, view, chans, notes, fetches, sends, lastSend,
                   lastRefetch>>

\* the effect body: the listener is registered, getSession is issued, the
\* visibility and unload handlers capture user; run after the first render and
\* after each render in which user is another value than in the render before
\* (the cleanup of the previous run first)
UseAuth_Effect ==
    /\ auth.due
    /\ auth' = [auth EXCEPT !.due = FALSE, !.effUser = auth.user,
                            !.probes = auth.probes + 1]
    /\ UNCHANGED <<session, rpcs, authLog, profiles, now, onlineAt>>
    /\ UNCHANGED <<directVars, moreVars, msgs, view, chans, notes, fetches, sends, lastSend,
                   lastRefetch>>

SetUserOnce(a, s, fresh) == [a EXCEPT !.user = s, !.due = s # a.effUser]

\* setUser(s): the dependency [user] is compared with Object.is, so the effect is
\* due when s is another identity, or none instead of one, or another object of
\* the same identity (fresh: the provider hands out a new user object)
SetUser(a, s, fresh) ==
    [a EXCEPT !.user = s,
              !.due = a.due \/ s # a.user \/ (s # NoUser /\ fresh)]

\* updateOnlineStatus(userId, isOnline), not awaited by its caller: one more
\* request is out, beside equal ones
Issue(rs, userId, isOnline) ==
    rs (+) SetToBag({[user |-> userId, online |-> isOnline]})

\* the update_user_status calls in flight that nobody awaits stay within n
RpcsWithin(n) == rpcs' = rpcs \/ BagCardinality(rpcs') <= n

UseAuth_AuthStateChange_NoPresence(fresh) ==
    /\ auth.events # <<>>
    /\ auth' = [SetUser(auth, Head(auth.events), fresh) EXCEPT
                    !.events = Tail(auth.events),
                    !.loading = FALSE]
    /\ UNCHANGED <<session, rpcs, authLog, profiles, now, onlineAt>>
    /\ UNCHANGED <<directVars, moreVars, msgs, view, chans, notes, fetches, sends, lastSend,
                   lastRefetch>>

\* the onAuthStateChange callback runs for one notification
UseAuth_AuthStateChange(fresh) ==
    /\ auth.events # <<>>
    /\ LET s == Head(auth.events)
       IN auth' = [SetUser(auth, s, fresh) EXCEPT
                       !.events = Tail(auth.events),
                       !.loading = FALSE,
                       !.timers = IF s # NoUser THEN auth.timers (+) SetToBag({s})
                                  ELSE auth.timers]
    /\ UNCHANGED <<session, rpcs, authLog, profiles, now, onlineAt>>
    /\ UNCHANGED <<directVars, moreVars, msgs, view, chans, notes, fetches, sends, lastSend,
                   lastRefetch>>

\* one setTimeout(..., 0) callback of the listener runs
UseAuth_Timeout(u) ==
    /\ BagIn(u, auth.timers)
    /\ auth' = [auth EXCEPT !.timers = auth.timers (-) SetToBag({u})]
    /\ rpcs' = Issue(rpcs, u, TRUE)
    /\ UNCHANGED <<session, authLog, profiles, now, onlineAt>>
    /\ UNCHANGED <<directVars, moreVars, msgs, view, chans, notes, fetches, sends, lastSend,
                   lastRefetch>>

\* the provider answers a getSession() call with the session it holds
Provider_GetSession ==
    /\ auth.probes > 0
    /\ auth' = [auth EXCEPT !.probes = auth.probes - 1,
                            !.results = Append(auth.results, session)]
    /\ UNCHANGED <<session, rpcs, authLog, profiles, now, onlineAt>>
    /\ UNCHANGED <<directVars, moreVars, msgs, view, chans, notes, fetches, sends, lastSend,
                   lastRefetch>>

\* the then-callback of getSession() runs with the answer of its call
UseAuth_GetSession(fresh) ==
    /\ auth.results # <<>>
    /\ LET s == Head(auth.results)
       IN /\ auth' = [SetUser(auth, s, fresh) EXCEPT
                          !.results = Tail(auth.results),
                          !.loading = FALSE]
          /\ rpcs' = IF s # NoUser THEN Issue(rpcs, s, TRUE) ELSE rpcs
    /\ UNCHANGED <<session, authLog, profiles, now, onlineAt>>
    /\ UNCHANGED <<directVars, moreVars, msgs, view, chans, notes, fetches, sends, lastSend,
                   lastRefetch>>

\* handleVisibilityChange, with the user its effect run captured
HandleVisibilityChange(hidden) ==
    /\ auth.effUser \in Users
    /\ rpcs' = Issue(rpcs, auth.effUser, ~hidden)
    /\ UNCHANGED <<auth, session, authLog, profiles, now, onlineAt>>
    /\ UNCHANGED <<directVars, moreVars, msgs, view, chans, notes, fetches, sends, lastSend,
                   lastRefetch>>

\* the store runs one update_user_status call that nobody awaits
Rpc_Apply(r) ==
    /\ BagIn(r, rpcs)
    /\ rpcs' = rpcs (-) SetToBag({r})
    /\ profiles' = update_user_status(profiles, r.user, r.online, now)
    /\ onlineAt' = IF r.online
                   THEN [onlineAt EXCEPT ![r.user] = onlineAt[r.user] \cup {now}]
                   ELSE onlineAt
    /\ UNCHANGED <<auth, session, authLog, now>>
    /\ UNCHANGED <<directVars, moreVars, msgs, view, chans, notes, fetches, sends, lastSend,
                   lastRefetch>>

SignOut_CallProviderFirst(k) ==
    /\ auth.so[k].pc = "idle"
    /\ \A j \in Calls : j < k => auth.so[j].pc # "idle" \/ auth.so[j].id # 0
    /\ auth.so[k].id = 0
    /\ auth' = [auth EXCEPT !.so[k] = [pc |-> "provider", id |-> k, user |-> auth.user]]
    /\ authLog' = Append(authLog, Logged(k, "provider", auth.user))
    /\ UNCHANGED <<session, rpcs, profiles, now, onlineAt>>
    /\ UNCHANGED <<directVars, moreVars, msgs, view, chans, notes, fetches, sends, lastSend,
                   lastRefetch>>

\* signOut up to its first await: with a user the offline write is issued and
\* awaited, without one supabase.auth.signOut() is invoked
SignOut_Call(k) ==
    /\ auth.so[k].pc = "idle"
    /\ \A j \in Calls : j < k => auth.so[j].pc # "idle" \/ auth.so[j].id # 0
    /\ auth.so[k].id = 0
    /\ IF auth.user # NoUser
       THEN /\ auth' = [auth EXCEPT !.so[k] =
                            [pc |-> "presence", id |-> k, user |-> auth.user]]
            /\ authLog' = Append(authLog, Logged(k, "offline", auth.user))
       ELSE /\ auth' = [auth EXCEPT !.so[k] =
                            [pc |-> "provider", id |-> k, user |-> NoUser]]
            /\ authLog' = Append(authLog, Logged(k, "provider", NoUser))
    /\ UNCHANGED <<session, rpcs, profiles, now, onlineAt>>
    /\ UNCHANGED <<directVars, moreVars, msgs, view, chans, notes, fetches, sends, lastSend,
                   lastRefetch>>

\* the awaited update_user_status call resolves: applied ("ok"), answered with
\* an error result ("error"), or the request rejects ("throw") and signOut ends
\* there; otherwise supabase.auth.signOut() is invoked
SignOut_Presence(k, how) ==
    /\ auth.so[k].pc = "presence"
    /\ profiles' = IF how = "ok"
                   THEN update_user_status(profiles, auth.so[k].user, FALSE, now)
                   ELSE profiles
    /\ IF how = "throw"
       THEN /\ auth' = [auth EXCEPT !.so[k].pc = "idle"]
            /\ authLog' = Append(authLog, Logged(k, "rejected", auth.so[k].user))
       ELSE /\ auth' = [auth EXCEPT !.so[k].pc = "provider"]
            /\ authLog' = Append(authLog, Logged(k, "provider", auth.so[k].user))
    /\ UNCHANGED <<session, rpcs, now, onlineAt>>
    /\ UNCHANGED <<directVars, moreVars, msgs, view, chans, notes, fetches, sends, lastSend,
                   lastRefetch>>

\* supabase.auth.signOut() resolves: the provider drops the session and notifies
\* the registered listener
SignOut_Provider(k) ==
    /\ auth.so[k].pc = "provider"
    /\ session' = NoUser
    /\ auth' = [auth EXCEPT !.so[k].pc = "idle",
                            !.events = IF session # NoUser /\ auth.effUser # "unset"
                                       THEN Append(auth.events, NoUser)
                                       ELSE auth.events]
    /\ authLog' = Append(authLog, Logged(k, "invalidated", auth.so[k].user))
    /\ UNCHANGED <<rpcs, profiles, now, onlineAt>>
    /\ UNCHANGED <<directVars, moreVars, msgs, view, chans, notes, fetches, sends, lastSend,
                   lastRefetch>>

\* the credential form signs Me in: the provider holds a session again and
\* notifies the registered listener
Provider_SignIn ==
    /\ session = NoUser
    /\ session' = Me
    /\ auth' = [auth EXCEPT !.events = IF auth.effUser # "unset"
                                       THEN Append(auth.events, Me)
                                       ELSE auth.events]
    /\ UNCHANGED <<rpcs, authLog, profiles, now, onlineAt>>
    /\ UNCHANGED <<directVars, moreVars, msgs, view, chans, notes, fetches, sends, lastSend,
                   lastRefetch>>

\* the hook is mounted in a browser whose provider holds a session of Me: user,
\* session and loading have their useState values and the effect has not run yet
InitAuth ==
    /\ rooms = SeedRooms({{"A", "B"}})
    /\ participants = SeedParticipants({{"A", "B"}})
    /\ InitDirectIdle
    /\ InitChatIdle
    /\ profiles = SeedProfiles
    /\ session = Me
    /\ auth = [user |-> NoUser, loading |-> TRUE, due |-> TRUE, effUser |-> "unset",
               probes |-> 0, results |-> <<>>, timers |-> EmptyBag, events |-> <<>>,
               so |-> [k \in Calls |-> NoCall]]
    /\ rpcs = EmptyBag
    /\ authLog = <<>>
    /\ onlineAt = [u \in Users |-> {}]
    /\ InitMoreIdle

\* the getSession answers that set a user and the visibility changes go on
\* without end, so the steps that issue their writes wait for room
NextAuth ==
    \/ UseAuth_Effect
    \/ \E fresh \in BOOLEAN : UseAuth_AuthStateChange(fresh)
    \/ \E u \in Users : UseAuth_Timeout(u)
    \/ Provider_GetSession
    \/ \E fresh \in BOOLEAN : UseAuth_GetSession(fresh) /\ RpcsWithin(MaxRpcs)
    \/ \E hidden \in BOOLEAN : HandleVisibilityChange(hidden) /\ RpcsWithin(MaxRpcs)
    \/ \E r \in BagToSet(rpcs) : Rpc_Apply(r)
    \/ \E k \in Calls : SignOut_Call(k)
    \/ \E k \in Calls, how \in {"ok", "error", "throw"} : SignOut_Presence(k, how)
    \/ \E k \in Calls : SignOut_Provider(k)
    \/ Provider_SignIn
    \/ Tick

SpecAuth == InitAuth /\ [][NextAuth]_vars

\* the session side of the hook alone: the page stays visible and the store's
\* clock stands still
NextSession ==
    \/ UseAuth_Effect
    \/ \E fresh \in BOOLEAN : UseAuth_AuthStateChange(fresh)
    \/ \E u \in Users : UseAuth_Timeout(u)
    \/ Provider_GetSession
    \/ \E fresh \in BOOLEAN : UseAuth_GetSession(fresh) /\ RpcsWithin(MaxRpcs)
    \/ \E r \in BagToSet(rpcs) : Rpc_Apply(r)
    \/ \E k \in Calls : SignOut_Call(k)
    \/ \E k \in Calls, how \in {"ok", "error", "throw"} : SignOut_Presence(k, how)
    \/ \E k \in Calls : SignOut_Provider(k)
    \/ Provider_SignIn

SpecSession == InitAuth /\ [][NextSession]_vars

\* effects and callbacks that are due run, and requests that are out resolve
SpecSessionFair ==
    /\ SpecSession
    /\ WF_vars(UseAuth_Effect)
    /\ WF_vars(\E fresh \in BOOLEAN : UseAuth_AuthStateChange(fresh))
    /\ WF_vars(\E u \in Users : UseAuth_Timeout(u))
    /\ WF_vars(Provider_GetSession)
    /\ WF_vars(\E fresh \in BOOLEAN : UseAuth_GetSession(fresh) /\ RpcsWithin(MaxRpcs))
    /\ WF_vars(\E r \in BagToSet(rpcs) : Rpc_Apply(r))
    /\ WF_vars(\E k \in Calls, how \in {"ok", "error", "throw"} : SignOut_Presence(k, how))
    /\ WF_vars(\E k \in Calls : SignOut_Provider(k))

\* the presence side of the hook alone: the session of Me stays, the page is
\* hidden and shown again
NextPresence ==
    \/ UseAuth_Effect
    \/ Provider_GetSession
    \/ \E fresh \in BOOLEAN : UseAuth_GetSession(fresh) /\ RpcsWithin(MaxRpcs)
    \/ \E hidden \in BOOLEAN : HandleVisibilityChange(hidden) /\ RpcsWithin(MaxRpcs)
    \/ \E r \in BagToSet(rpcs) : Rpc_Apply(r)
    \/ Tick

SpecPresence == InitAuth /\ [][NextPresence]_vars

----------------------------------------------------------------------------
(* Claims about useAuth *)

\* C10: when signOut is invoked with an identity set, the offline presence write
\* for that identity is issued before supabase.auth.signOut() is invoked, and
\* never after that call's sign-out has invalidated the session.
C10_OfflineWriteBeforeSignOut ==
    \A i \in 1..Len(authLog) :
        /\ (authLog[i].ev = "provider" /\ authLog[i].user # NoUser)
               => \E j \in 1..(i - 1) :
                      authLog[j] = Logged(authLog[i].call, "offline", authLog[i].user)
        /\ authLog[i].ev = "offline"
               => \A j \in 1..(i - 1) :
                      ~(authLog[j].call = authLog[i].call
                            /\ authLog[j].ev \in {"provider", "invalidated"})

\* signOut ran to its end for the signed-in identity: offline write, then the
\* provider's sign-out, then the session gone.
C10_Witness ==
    /\ session = NoUser
    /\ Len(authLog) >= 3
    /\ authLog[1] = Logged(1, "offline", Me)
    /\ authLog[2] = Logged(1, "provider", Me)
    /\ authLog[3] = Logged(1, "invalidated", Me)

\* C11: every signOut call invokes the provider's sign-out and invalidates the
\* session, whatever the outcome of its offline presence write (applied, error
\* result, or a rejected request): a call that has ended has invalidated the
\* session.
C11_SignOutAlwaysInvalidates ==
    \A k \in Calls :
        (auth.so[k].id # 0 /\ auth.so[k].pc = "idle")
            => \E i \in 1..Len(authLog) :
                   authLog[i].call = k /\ authLog[i].ev = "invalidated"

\* what one applied presence write does to the row of u
PresenceEffect(u, online) ==
    /\ profiles'[u].is_online = online
    /\ profiles'[u].last_seen = IF online THEN profiles[u].last_seen ELSE now
    /\ \A v \in Users \ {u} : profiles'[v] = profiles[v]

\* C12: update_user_status(u, true) sets is_online and leaves last_seen as it was;
\* update_user_status(u, false) clears is_online and sets last_seen to the current
\* time. No step lowers a last_seen, and a row that is offline after online writes
\* has a last_seen at or after the time of each of them.
C12_PresenceWrites ==
    /\ [][/\ \A r \in BagToSet(rpcs) : Rpc_Apply(r) => PresenceEffect(r.user, r.online)
          /\ \A k \in Calls :
                 SignOut_Presence(k, "ok") => PresenceEffect(auth.so[k].user, FALSE)
          /\ \A u \in Users : profiles'[u].last_seen >= profiles[u].last_seen]_vars
    /\ [](\A u \in Users :
              ~profiles[u].is_online
                  => \A t \in onlineAt[u] : profiles[u].last_seen >= t)

\* Me was marked online after the clock had advanced and is offline again
C12_Witness ==
    /\ ~profiles[Me].is_online
    /\ \E t \in onlineAt[Me] : t > 0 /\ profiles[Me].last_seen >= t

OnlineWrite(u) == [user |-> u, online |-> TRUE]

OneMore(e, B1, B2) == CopiesIn(e, B2) = CopiesIn(e, B1) + 1

\* C13: a session with an identity that reaches the hook through a notification
\* arms a timer whose callback issues the online write for that identity, and one
\* that reaches it through the answer of getSession issues that write at once; a
\* second online write leaves the profiles as the first left them.
C13_SessionMarksOnline ==
    /\ [][/\ \A fresh \in BOOLEAN :
                 (UseAuth_AuthStateChange(fresh) /\ Head(auth.events) # NoUser)
                     => OneMore(Head(auth.events), auth.timers, auth'.timers)
          /\ \A u \in Users :
                 UseAuth_Timeout(u) => OneMore(OnlineWrite(u), rpcs, rpcs')
          /\ \A fresh \in BOOLEAN :
                 (UseAuth_GetSession(fresh) /\ Head(auth.results) # NoUser)
                     => OneMore(OnlineWrite(Head(auth.results)), rpcs, rpcs')]_vars
    /\ \A u \in Users, n \in 1..(MaxSignOuts + 1) :
           (CopiesIn(u, auth.timers) = n) ~> (CopiesIn(u, auth.timers) < n)
    /\ [](\A u \in Users, t \in 0..MaxTime :
              LET once == update_user_status(profiles, u, TRUE, now)
              IN update_user_status(once, u, TRUE, t) = once)

\* after a sign-out and a new sign-in the session of Me has reached the hook,
\* nothing is pending, and the online write issued for it is applied
C13_Witness ==
    /\ \E i \in 1..Len(authLog) : authLog[i].ev = "invalidated"
    /\ session = Me
    /\ auth.user = Me
    /\ auth.effUser = Me
    /\ auth.timers = EmptyBag
    /\ auth.events = <<>>
    /\ auth.results = <<>>
    /\ rpcs = EmptyBag
    /\ profiles[Me].is_online

\* C14: user ends up equal to the identity of the session the provider holds,
\* whatever the order in which notifications and getSession answers reach the hook.
C14_UserConvergesToSession == <>[](auth.user = session)

\* the notification of the sign-out has been handled and then the answer of an
\* earlier getSession call has set user to the signed-out identity
C14_Witness ==
    /\ session = NoUser
    /\ \E i \in 1..Len(authLog) : authLog[i] = Logged(authLog[i].call, "invalidated", Me)
    /\ auth.events = <<>>
    /\ auth.user = Me

\* C15: loading starts true, turns false when the listener callback or the
\* getSession callback first runs, by no other step, and is never true again.
C15_LoadingFalseOnce ==
    /\ auth.loading
    /\ [][/\ (\E fresh \in BOOLEAN :
                  UseAuth_AuthStateChange(fresh) \/ UseAuth_GetSession(fresh))
                 => ~auth'.loading
          /\ (auth.loading /\ ~auth'.loading)
                 => (\E fresh \in BOOLEAN :
                         UseAuth_AuthStateChange(fresh) \/ UseAuth_GetSession(fresh))
          /\ ~auth.loading => ~auth'.loading]_vars

\* the effect has run again for a changed user after loading turned false
C15_Witness ==
    /\ ~auth.loading
    /\ auth.effUser = Me
    /\ auth.probes + Len(auth.results) > 0

----------------------------------------------------------------------------
(* The store: handle_new_user, the trigger after an insert into auth.users *)

\* the rows inserted into auth.users: id, email, raw_user_meta_data
NewUsers ==
    {[id |-> "D", email |-> <<"a", "@", "x">>, raw_user_meta_data |-> <<>>],
     [id |-> "E", email |-> <<"e", "@", "x">>,
      raw_user_meta_data |-> [username |-> <<"a">>]],
     [id |-> "F", email |-> <<"f", "@", "x">>,
      raw_user_meta_data |-> [username |-> <<"a", "1">>, display_name |-> <<"f">>]]}

NewIds == {n.id : n \in NewUsers}

\* json ->> key: the text under the key, NULL (no value) when the key is absent
JsonText(json, key) == IF key \in DOMAIN json THEN <<json[key]>> ELSE <<>>

\* COALESCE(a, b), b not NULL
COALESCE(a, b) == IF a # <<>> THEN a[1] ELSE b

\* split_part(text, delimiter, 1): the text before the first delimiter
RECURSIVE split_part(_, _)
split_part(text, delimiter) ==
    IF text = <<>> \/ Head(text) = delimiter THEN <<>>
    ELSE <<Head(text)>> \o split_part(Tail(text), delimiter)

DecimalDigits == <<"0", "1", "2", "3", "4", "5", "6", "7", "8", "9">>

\* counter::text
RECURSIVE IntToText(_)
IntToText(n) ==
    IF n < Len(DecimalDigits) THEN <<DecimalDigits[n + 1]>>
    ELSE IntToText(n \div Len(DecimalDigits))
             \o <<DecimalDigits[(n % Len(DecimalDigits)) + 1]>>

\* EXISTS (SELECT 1 FROM public.profiles WHERE username = final_username)
UsernameExists(prof, name) == \E r \in DOMAIN prof : prof[r].username = name

UniqueViolationNever(prof, row) == FALSE

\* the constraints UNIQUE (user_id) and UNIQUE (username) of profiles
UniqueViolation(prof, row) ==
    \E r \in DOMAIN prof :
        prof[r].user_id = row.user_id \/ prof[r].username = row.username

IdleSignup == [pc |-> "idle", base |-> <<>>, final |-> <<>>, counter |-> 0,
               display |-> <<>>, solo |-> TRUE]

\* the function is being executed (an INSERT that waits is part of it)
Running(su) == su.pc \in {"check", "insert"}

\* the trigger fires for the row New: lines 32-33 of the function. History:
\* solo, no other execution of the function has overlapped this one
HandleNewUser_Begin(New) ==
    /\ signups[New.id].pc = "idle"
    /\ LET base_username ==
               COALESCE(JsonText(New.raw_user_meta_data, "username"),
                        split_part(New.email, "@"))
           display ==
               COALESCE(JsonText(New.raw_user_meta_data, "display_name"),
                        split_part(New.email, "@"))
           alone == \A i \in NewIds \ {New.id} : ~Running(signups[i])
       IN signups' = [i \in NewIds |->
                         IF i = New.id
                         THEN [pc |-> "check", base |-> base_username,
                               final |-> base_username, counter |-> 0,
                               display |-> display, solo |-> alone]
                         ELSE IF Running(signups[i])
                              THEN [signups[i] EXCEPT !.solo = FALSE]
                              ELSE signups[i]]
    /\ UNCHANGED <<uncommitted, sidebar, sideFetches, profiles, histVars>>
    /\ UNCHANGED <<directVars, chatVars, authVars>>

HandleNewUser_CheckOnce(id) ==
    /\ signups[id].pc = "check"
    /\ signups' = [signups EXCEPT
           ![id].pc = "insert",
           ![id].counter = IF UsernameExists(profiles, signups[id].final) THEN 1 ELSE 0,
           ![id].final = IF UsernameExists(profiles, signups[id].final)
                         THEN signups[id].base \o IntToText(1)
                         ELSE signups[id].final]
    /\ UNCHANGED <<uncommitted, sidebar, sideFetches, profiles, histVars>>
    /\ UNCHANGED <<directVars, chatVars, authVars>>

\* one evaluation of the WHILE condition, and the loop body when it holds; the
\* query sees the committed rows (profiles)
HandleNewUser_Check(id) ==
    /\ signups[id].pc = "check"
    /\ IF UsernameExists(profiles, signups[id].final)
       THEN LET counter == signups[id].counter + 1
            IN signups' = [signups EXCEPT
                   ![id].counter = counter,
                   ![id].final = signups[id].base \o IntToText(counter)]
       ELSE signups' = [signups EXCEPT ![id].pc = "insert"]
    /\ UNCHANGED <<uncommitted, sidebar, sideFetches, profiles, histVars>>
    /\ UNCHANGED <<directVars, chatVars, authVars>>

\* a row of another transaction that has not committed holds the user_id or the
\* username of row in a unique index
HeldByOpenTransaction(unc, row) ==
    \E r \in unc : r.user_id = row.user_id \/ r.username = row.username

\* the INSERT of the function and RETURN NEW: a committed row with the same
\* user_id or username rejects it and the creation of the identity fails with
\* it; while a transaction that has not committed holds such a row the INSERT
\* waits for that transaction; otherwise the row is added, visible to this
\* transaction only, and the function returns
HandleNewUser_Insert(id) ==
    /\ signups[id].pc = "insert"
    /\ LET row == [user_id |-> id, username |-> signups[id].final,
                   display_name |-> signups[id].display,
                   is_online |-> TRUE, last_seen |-> now]
       IN IF UniqueViolation(profiles, row)
          THEN /\ signups' = [signups EXCEPT ![id].pc = "failed"]
               /\ UNCHANGED uncommitted
          ELSE /\ ~HeldByOpenTransaction(uncommitted, row)
               /\ signups' = [signups EXCEPT ![id].pc = "done"]
               /\ uncommitted' = uncommitted \cup {row}
    /\ UNCHANGED <<sidebar, sideFetches, profiles, histVars>>
    /\ UNCHANGED <<directVars, chatVars, authVars>>

\* the transaction that inserted the auth.users row commits after the trigger
\* has returned: its profiles row becomes visible to every query
Transaction_Commit(row) ==
    /\ row \in uncommitted
    /\ profiles' = Append(profiles, row)
    /\ uncommitted' = uncommitted \ {row}
    /\ UNCHANGED <<signups, sidebar, sideFetches, histVars>>
    /\ UNCHANGED <<directVars, chatVars, authVars>>

\* profiles rows present before the new identities: username and owner
SeedUsernames == {<<>>, <<<<"a">>>>, <<<<"a">>, <<"a", "1">>>>}

SeedAccounts(names) ==
    [r \in 1..Len(names) |->
        [user_id |-> SetToSeq(Users)[r], username |-> names[r],
         display_name |-> names[r], is_online |-> FALSE, last_seen |-> 0]]

\* profiles is here the sequence of its committed rows, in the order of commit
InitSignup ==
    /\ rooms = SeedRooms({})
    /\ participants = SeedParticipants({})
    /\ InitDirectIdle
    /\ InitChatIdle
    /\ InitAuthIdle
    /\ \E names \in SeedUsernames : profiles = SeedAccounts(names)
    /\ signups = [i \in NewIds |-> IdleSignup]
    /\ uncommitted = {}
    /\ sidebar = <<>>
    /\ sideFetches = EmptyBag
    /\ InitHistIdle

NextSignup ==
    \/ \E New \in NewUsers : HandleNewUser_Begin(New)
    \/ \E id \in NewIds : HandleNewUser_Check(id)
    \/ \E id \in NewIds : HandleNewUser_Insert(id)
    \/ \E row \in uncommitted : Transaction_Commit(row)

SpecSignup == InitSignup /\ [][NextSignup]_vars

\* an execution of the function that has begun runs on, and a transaction whose
\* trigger has returned commits
SpecSignupFair ==
    /\ SpecSignup
    /\ WF_vars(\E id \in NewIds : HandleNewUser_Check(id))
    /\ WF_vars(\E id \in NewIds : HandleNewUser_Insert(id))
    /\ WF_vars(\E row \in uncommitted : Transaction_Commit(row))

----------------------------------------------------------------------------
(* Claims about handle_new_user *)

Suffixed(base, k) == base \o IntToText(k)

\* the usernames of the rows of profiles, committed or not
TakenNames ==
    {profiles[r].username : r \in DOMAIN profiles}
        \cup {r.username : r \in uncommitted}

\* the username the function is to give for the desired one, against the names taken
IsNextFree(taken, base, name) ==
    IF base \notin taken THEN name = base
    ELSE \E k \in 1..(Cardinality(taken) + 1) :
             /\ name = Suffixed(base, k)
             /\ name \notin taken
             /\ \A j \in 1..(k - 1) : Suffixed(base, j) \in taken

\* C16: the row handle_new_user inserts has the desired username when no profile
\* has it, and otherwise the desired username followed by the smallest k >= 1 that
\* makes a username no profile has; an execution that runs while no other has
\* begun inserts its row; the row is committed as it was inserted; the loop of
\* every execution ends.
C16_UsernameIsNextFree ==
    /\ [][/\ \A id \in NewIds :
                 HandleNewUser_Insert(id)
                     => /\ (\A j \in NewIds \ {id} : signups[j].pc = "idle")
                               => signups'[id].pc = "done"
                        /\ signups'[id].pc = "done"
                               => /\ IsNextFree(TakenNames, signups[id].base,
                                                signups[id].final)
                                  /\ \E r \in uncommitted' \ uncommitted :
                                         r.user_id = id /\ r.username = signups[id].final
           /\ \A row \in uncommitted :
                 Transaction_Commit(row) => profiles'[Len(profiles')] = row]_vars
    /\ \A id \in NewIds : (signups[id].pc = "check") ~> (signups[id].pc # "check")

\* E asked for "a" while "a" and "a1" were taken and got "a2"
C16_Witness ==
    /\ signups["E"].pc = "done"
    /\ signups["E"].solo
    /\ \E r \in DOMAIN profiles :
           profiles[r].user_id = "E" /\ profiles[r].username = <<"a", "2">>

\* C17: no two rows of profiles share a username, and no two share a user_id,
\* the rows of transactions that have not committed included.
C17_ProfilesUnique ==
    LET all == {profiles[r] : r \in DOMAIN profiles} \cup uncommitted
    IN /\ \A r1, r2 \in DOMAIN profiles :
              r1 # r2 => /\ profiles[r1].username # profiles[r2].username
                         /\ profiles[r1].user_id # profiles[r2].user_id
       /\ \A r1, r2 \in all :
              r1 # r2 => /\ r1.username # r2.username
                         /\ r1.user_id # r2.user_id

\* two executions left the loop with the same username before the row of either
\* was visible: one inserted and committed it, the other, whose INSERT waited
\* for that commit, was rejected
C17_Witness ==
    \E i, j \in NewIds :
        /\ signups[i].pc = "done"
        /\ signups[j].pc = "failed"
        /\ signups[i].final = signups[j].final
        /\ signups[i].counter = 0
        /\ signups[j].counter = 0
        /\ uncommitted = {}

----------------------------------------------------------------------------
(* ChatSidebar: the conversation directory *)

Watchers == {"B"}    \* the clients whose sidebar is followed

\* useState of chatRooms and profiles; user is what useAuth has delivered
NoSidebar == [user |-> NoUser, chatRooms |-> <<>>, profiles |-> {}]

\* chat_rooms rows the query returns to uid: those the select policy shows, with
\* at least one chat_participants row uid can see (the inner join)
VisibleRooms(rs, ps, uid) ==
    {r \in 1..Len(rs) :
        /\ RoomSelectPolicy(ps, uid, r) = "pass"
        /\ \E p \in VisibleParticipants(ps, uid) : p[1] = r}

\* .order('updated_at', { ascending: false }): the rows in an order descending
\* by updated_at; rows with equal updated_at come in either order
OrderByUpdatedAtDesc(rs, ids) ==
    {q \in Perms(ids) :
        \A i \in 1..Len(q), j \in 1..Len(q) :
            i < j => rs[q[i]].updated_at >= rs[q[j]].updated_at}

\* chat_participants!inner(profiles(*)) of one room, as uid: <<>> when the
\* request cannot be answered (profiles does not embed in chat_participants),
\* else <<the profiles>>
EmbeddedParticipants(ps, uid, r) ==
    IF ~Embeddable("chat_participants", "profiles") THEN <<>>
    ELSE <<{p[2] : p \in {q \in VisibleParticipants(ps, uid) : q[1] = r}}>>

\* messages(content, created_at) of one room, as uid: the embedded rows carry no
\* order clause, so they come in any order
EmbeddedMessages(ms, ps, uid, r) ==
    Perms({i \in RoomIds(ms, r) : MessageSelectPolicy(ps, uid, ms[i]) = "pass"})

\* room.messages?.[0]: the first embedded row, undefined (no value) when none
FirstMessage(ms, embedded) ==
    IF embedded = <<>> THEN <<>>
    ELSE <<[content |-> ms[embedded[1]].content,
            created_at |-> ms[embedded[1]].created_at]>>

\* formattedRooms for the rows in the order q, each room with its embedded rows
FormattedRooms(rs, ps, ms, uid, q, embedded) ==
    [k \in 1..Len(q) |->
        [id |-> q[k],
         is_group |-> rs[q[k]].is_group,
         updated_at |-> rs[q[k]].updated_at,
         participants |-> EmbeddedParticipants(ps, uid, q[k])[1],
         last_message |-> FirstMessage(ms, embedded[q[k]])]]

\* the query of fetchChatRooms is answered with rows: its embeds resolve and the
\* policies of the tables it reads can be added
ChatRoomsAnswered ==
    /\ Embeddable("chat_rooms", "chat_participants")
    /\ Embeddable("chat_participants", "profiles")
    /\ Embeddable("chat_rooms", "messages")
    /\ SelectPlanned({"chat_rooms", "chat_participants", "profiles", "messages"})

\* the lists fetchChatRooms can build from the store's answer; none when the
\* query fails
ChatRoomLists(rs, ps, ms, uid) ==
    IF ~ChatRoomsAnswered THEN {}
    ELSE LET ids == VisibleRooms(rs, ps, uid)
             all == UNION {EmbeddedMessages(ms, ps, uid, r) : r \in ids}
             embeddings == {g \in [ids -> all] :
                               \A r \in ids : g[r] \in EmbeddedMessages(ms, ps, uid, r)}
         IN {FormattedRooms(rs, ps, ms, uid, q, g) :
                 q \in OrderByUpdatedAtDesc(rs, ids), g \in embeddings}

\* the requests of one run of the effect on [user]
EffectRequests(u) ==
    SetToBag({SideFetch(u, "fetchChatRooms"), SideFetch(u, "fetchProfiles")})

\* sideFetches is a bag: equal requests in flight are separate requests
RequestsWithin(n) == BagCardinality(sideFetches') <= n

\* useAuth delivers the user and the effect on [user] runs: fetchChatRooms() and
\* fetchProfiles() are called
Sidebar_Effect(u) ==
    /\ sidebar[u].user = NoUser
    /\ sidebar' = [sidebar EXCEPT ![u].user = u]
    /\ sideFetches' = sideFetches (+) EffectRequests(u)
    /\ UNCHANGED <<signups, uncommitted, profiles, histVars>>
    /\ UNCHANGED <<directVars, chatVars, authVars>>

\* useAuth sets a new user object of the same identity (a notification or a
\* getSession answer may carry one), so the effect on [user] runs again and
\* calls both functions again, whatever is in flight
Sidebar_UserChanged(u) ==
    /\ sidebar[u].user # NoUser
    /\ sideFetches' = sideFetches (+) EffectRequests(u)
    /\ UNCHANGED <<signups, uncommitted, sidebar, profiles, histVars>>
    /\ UNCHANGED <<directVars, chatVars, authVars>>

\* the query of fetchChatRooms resolves: with an error (the store's, or ok =
\* FALSE for a request that failed on its way) the function returns, otherwise
\* setChatRooms(formattedRooms)
FetchChatRooms_Resolve(f, ok) ==
    /\ BagIn(f, sideFetches)
    /\ f.fn = "fetchChatRooms"
    /\ sideFetches' = sideFetches (-) SetToBag({f})
    /\ IF ok /\ ChatRoomLists(rooms, participants, msgs, f.owner) # {}
       THEN \E formattedRooms \in ChatRoomLists(rooms, participants, msgs, f.owner) :
                sidebar' = [sidebar EXCEPT ![f.owner].chatRooms = formattedRooms]
       ELSE sidebar' = [sidebar EXCEPT ![f.owner].chatRooms = Retained(@)]
    /\ UNCHANGED <<signups, uncommitted, profiles, histVars>>
    /\ UNCHANGED <<directVars, chatVars, authVars>>

\* the query of fetchProfiles resolves (profiles is readable by everyone):
\* setProfiles(data) unless the request failed
FetchProfiles_Resolve(f, ok) ==
    /\ BagIn(f, sideFetches)
    /\ f.fn = "fetchProfiles"
    /\ sideFetches' = sideFetches (-) SetToBag({f})
    /\ sidebar' = IF ok
                  THEN [sidebar EXCEPT ![f.owner].profiles =
                            {u \in DOMAIN profiles : u # f.owner}]
                  ELSE sidebar
    /\ UNCHANGED <<signups, uncommitted, profiles, histVars>>
    /\ UNCHANGED <<directVars, chatVars, authVars>>

\* the store of the directory: the direct room of A and B, the group room of all
\* users and the direct room of A and C, last updated in this order
DirectoryMembers == <<{"A", "B"}, Users, {"A", "C"}>>

DirectoryRooms ==
    [r \in 1..Len(DirectoryMembers) |->
        [is_group |-> Cardinality(DirectoryMembers[r]) > 2,
         created_by |-> "A",
         updated_at |-> r - Len(DirectoryMembers)]]

InitDirectory ==
    /\ rooms = DirectoryRooms
    /\ participants = UNION {{<<r, u>> : u \in DirectoryMembers[r]} :
                                 r \in 1..Len(DirectoryMembers)}
    /\ InitDirectIdle
    /\ now = 0
    /\ msgs = <<>>
    /\ view = [u \in Viewers |-> ClosedView]
    /\ chans = {}
    /\ notes = {}
    /\ fetches = {}
    /\ sends = {}
    /\ lastSend = NoSend
    /\ lastRefetch = NoRefetch
    /\ profiles = SeedProfiles
    /\ InitAuthIdle
    /\ signups = <<>>
    /\ uncommitted = {}
    /\ sidebar = [u \in Watchers |-> NoSidebar]
    /\ sideFetches = EmptyBag
    /\ InitHistIdle

\* rows are inserted into the rooms by the service role while B's sidebar loads
\* its directory
NextDirectory ==
    \/ \E r \in ChatRooms, s \in Users :
           Store_InsertMessage(ServiceRole, r, s) /\ RowsWithin(MaxListed)
    \/ Tick
    \/ \E u \in Watchers : Sidebar_Effect(u)
    \/ \E u \in Watchers : Sidebar_UserChanged(u) /\ RequestsWithin(MaxRequests)
    \/ \E f \in BagToSet(sideFetches), ok \in BOOLEAN : FetchChatRooms_Resolve(f, ok)
    \/ \E f \in BagToSet(sideFetches), ok \in BOOLEAN : FetchProfiles_Resolve(f, ok)

SpecDirectory == InitDirectory /\ [][NextDirectory]_vars

\* effects that are due run and requests that are out resolve
SpecDirectoryFair ==
    /\ SpecDirectory
    /\ WF_vars(\E u \in Watchers : Sidebar_Effect(u))
    /\ WF_vars(\E f \in BagToSet(sideFetches), ok \in BOOLEAN : FetchChatRooms_Resolve(f, ok))
    /\ WF_vars(\E f \in BagToSet(sideFetches), ok \in BOOLEAN : FetchProfiles_Resolve(f, ok))

----------------------------------------------------------------------------
(* Claims about the conversation directory *)

Preview(m) == <<[content |-> msgs[m].content, created_at |-> msgs[m].created_at]>>

\* the directory of u shows message m as its room's preview, the room first
Previewed(u, m) ==
    /\ sidebar[u].chatRooms # <<>>
    /\ sidebar[u].chatRooms[1].id = msgs[m].chat_room_id
    /\ sidebar[u].chatRooms[1].last_message = Preview(m)

\* C18: after a message is appended to a room of the user, the user's directory
\* eventually shows it (or a later message of the store) as that room's preview
\* with the room first in the list, without a refresh being asked for.
C18_DirectoryFollowsMessages ==
    \A m \in 1..MaxListed :
        (Len(msgs) >= m /\ <<msgs[m].chat_room_id, "B">> \in participants)
            ~> (Len(msgs) > m \/ (Len(msgs) = m /\ Previewed("B", m)))

\* the summary of room r carries the most recent message of r, or none
IsMostRecent(ms, r, last_message) ==
    IF RoomIds(ms, r) = {} THEN last_message = <<>>
    ELSE /\ last_message # <<>>
         /\ \E i \in RoomIds(ms, r) :
                /\ last_message[1].created_at = ms[i].created_at
                /\ last_message[1].content = ms[i].content
                /\ \A j \in RoomIds(ms, r) : ms[j].created_at <= ms[i].created_at

\* C19: in every list fetchChatRooms sets, the last_message of a room is the
\* message of that room with the greatest created_at, and is absent exactly when
\* the room has no message.
C19_LastMessageIsMostRecent ==
    [][\A f \in BagToSet(sideFetches) :
           FetchChatRooms_Resolve(f, TRUE)
               => \A k \in 1..Len(sidebar'[f.owner].chatRooms) :
                      IsMostRecent(msgs, sidebar'[f.owner].chatRooms[k].id,
                                   sidebar'[f.owner].chatRooms[k].last_message)]_vars

\* C20: the list a successful fetchChatRooms sets holds exactly the rooms in which
\* the user is a participant, each once, in an order descending by updated_at.
C20_ListIsOwnRoomsByUpdatedAt ==
    [][\A f \in BagToSet(sideFetches) :
           (/\ FetchChatRooms_Resolve(f, TRUE)
            /\ ChatRoomLists(rooms, participants, msgs, f.owner) # {})
               => LET list == sidebar'[f.owner].chatRooms
                      own == {r \in 1..Len(rooms) : <<r, f.owner>> \in participants}
                  IN /\ {list[k].id : k \in 1..Len(list)} = own
                     /\ Len(list) = Cardinality(own)
                     /\ \A i \in 1..Len(list), j \in 1..Len(list) :
                            i < j => rooms[list[i].id].updated_at
                                         >= rooms[list[j].id].updated_at]_vars

----------------------------------------------------------------------------
(* Room labels: getChatName and getChatAvatar of ChatSidebar and ChatWindow *)

\* a || b where a is an optional text: b when a is absent or the empty string
OrElse(a, b) == IF a = <<>> \/ a[1] = "" THEN b ELSE a[1]

\* profiles rows as the components read them from a participant row; the columns
\* display_name (NOT NULL, may be empty) and avatar_url (may be NULL)
LabelProfiles ==
    [u \in Users |->
        [user_id |-> u,
         display_name |-> IF u = "A" THEN "Ann" ELSE IF u = "B" THEN "Bob" ELSE "",
         avatar_url |-> IF u = "B" THEN <<"b.png">> ELSE <<>>]]

\* chat_rooms rows of the shape the queries ask for, chat_participants(profiles(*))
\* embedded in any order; name is NULL, empty or a text; the embedded profiles
\* of a participant is <<the row>>, or <<>> (null) for a participant that has no
\* profiles row ("missing")
LabelRows ==
    {[is_group |-> g, name |-> n,
      chat_participants |->
          [k \in 1..Len(q) |->
              [profiles |-> IF q[k] = "missing" THEN <<>> ELSE <<LabelProfiles[q[k]]>>]]] :
        g \in BOOLEAN, n \in {<<>>, <<"">>, <<"Team">>},
        q \in UNION {Perms(S) : S \in SUBSET (Users \cup {"missing"})}}

\* formattedRooms of fetchChatRooms, for one row: participants is the profiles,
\* null where the row has none
FormattedRoom(row) ==
    [is_group |-> row.is_group, name |-> row.name,
     participants |-> [k \in 1..Len(row.chat_participants) |->
                          row.chat_participants[k].profiles]]

\* participants.find(p => p.user_id !== user?.id) throws a TypeError: the
\* callback reads user_id of null, on an element before any it accepts
RECURSIVE FindOther_Throws(_, _)
FindOther_Throws(ps, uid) ==
    /\ ps # <<>>
    /\ \/ Head(ps) = <<>>
       \/ Head(ps)[1].user_id = uid /\ FindOther_Throws(Tail(ps), uid)

\* participants.find(p => p.user_id !== user?.id), when it does not throw: the
\* first such profile, if any
RECURSIVE FindOther(_, _)
FindOther(ps, uid) ==
    IF ps = <<>> THEN <<>>
    ELSE IF Head(ps)[1].user_id # uid THEN Head(ps)
    ELSE FindOther(Tail(ps), uid)

\* ChatSidebar.getChatName(room) when it returns
getChatName(room, uid) ==
    IF room.is_group THEN OrElse(room.name, "Group Chat")
    ELSE LET otherParticipant == FindOther(room.participants, uid)
         IN OrElse(IF otherParticipant = <<>> THEN <<>>
                   ELSE <<otherParticipant[1].display_name>>,
                   "Unknown User")

\* ChatSidebar.getChatAvatar(room) when it returns
getChatAvatar(room, uid) ==
    IF room.is_group THEN <<>>
    ELSE LET otherParticipant == FindOther(room.participants, uid)
         IN IF otherParticipant = <<>> THEN <<>> ELSE otherParticipant[1].avatar_url

\* chatInfo.chat_participants?.find(p => p.profiles.user_id !== user?.id) throws:
\* the callback reads user_id of a null p.profiles
RECURSIVE FindOtherRow_Throws(_, _)
FindOtherRow_Throws(cps, uid) ==
    /\ cps # <<>>
    /\ \/ Head(cps).profiles = <<>>
       \/ Head(cps).profiles[1].user_id = uid /\ FindOtherRow_Throws(Tail(cps), uid)

\* chatInfo.chat_participants?.find(p => p.profiles.user_id !== user?.id)?.profiles
\* when it does not throw
RECURSIVE FindOtherRow(_, _)
FindOtherRow(cps, uid) ==
    IF cps = <<>> THEN <<>>
    ELSE IF Head(cps).profiles[1].user_id # uid THEN Head(cps).profiles
    ELSE FindOtherRow(Tail(cps), uid)

\* ChatWindow.getChatName() when it returns, chatInfo being absent until
\* fetchChatInfo has set it
Window_getChatName(chatInfo, uid) ==
    IF chatInfo = <<>> THEN ""
    ELSE IF chatInfo[1].is_group THEN OrElse(chatInfo[1].name, "Group Chat")
    ELSE LET otherParticipant == FindOtherRow(chatInfo[1].chat_participants, uid)
         IN OrElse(IF otherParticipant = <<>> THEN <<>>
                   ELSE <<otherParticipant[1].display_name>>,
                   "Unknown User")

\* ChatWindow.getChatAvatar() when it returns
Window_getChatAvatar(chatInfo, uid) ==
    IF chatInfo = <<>> \/ chatInfo[1].is_group THEN <<>>
    ELSE LET otherParticipant == FindOtherRow(chatInfo[1].chat_participants, uid)
         IN IF otherParticipant = <<>> THEN <<>> ELSE otherParticipant[1].avatar_url

\* the sidebar renders the entry of the room: the labels, or (failed) the
\* TypeError the find of getChatName and getChatAvatar throws while rendering
Sidebar_Render ==
    /\ rendered.by # "sidebar"
    /\ LET room == FormattedRoom(rendered.row)
       IN rendered' =
              IF ~room.is_group /\ FindOther_Throws(room.participants, rendered.user)
              THEN [rendered EXCEPT !.by = "sidebar", !.failed = TRUE]
              ELSE [rendered EXCEPT
                       !.by = "sidebar",
                       !.failed = FALSE,
                       !.name = getChatName(room, rendered.user),
                       !.avatar = getChatAvatar(room, rendered.user)]
    /\ UNCHANGED <<signups, uncommitted, sidebar, sideFetches, chanLog, closed, msgBy>>
    /\ UNCHANGED <<directVars, chatVars, authVars, profiles>>

\* the window renders its header, before (loaded = FALSE) or after setChatInfo:
\* the labels, or (failed) the TypeError the find of getChatName and
\* getChatAvatar throws while rendering
Window_Render(loaded) ==
    /\ rendered.by # (IF loaded THEN "window" ELSE "windowNoInfo")
    /\ LET chatInfo == IF loaded THEN <<rendered.row>> ELSE <<>>
           by == IF loaded THEN "window" ELSE "windowNoInfo"
       IN rendered' =
              IF /\ chatInfo # <<>>
                 /\ ~chatInfo[1].is_group
                 /\ FindOtherRow_Throws(chatInfo[1].chat_participants, rendered.user)
              THEN [rendered EXCEPT !.by = by, !.failed = TRUE]
              ELSE [rendered EXCEPT
                       !.by = by,
                       !.failed = FALSE,
                       !.name = Window_getChatName(chatInfo, rendered.user),
                       !.avatar = Window_getChatAvatar(chatInfo, rendered.user)]
    /\ UNCHANGED <<signups, uncommitted, sidebar, sideFetches, chanLog, closed, msgBy>>
    /\ UNCHANGED <<directVars, chatVars, authVars, profiles>>

\* a room row handed to the label functions and the current user (or none);
\* nothing is rendered yet
InitLabels ==
    /\ rooms = SeedRooms({})
    /\ participants = SeedParticipants({})
    /\ InitDirectIdle
    /\ InitChatIdle
    /\ InitAuthIdle
    /\ profiles = SeedProfiles
    /\ signups = <<>>
    /\ uncommitted = {}
    /\ sidebar = <<>>
    /\ sideFetches = EmptyBag
    /\ \E row \in LabelRows, u \in {"A", NoUser} :
           rendered = [user |-> u, row |-> row, by |-> "none", name |-> "",
                       avatar |-> <<>>, failed |-> FALSE]
    /\ chanLog = [u \in Viewers |-> <<>>]
    /\ closed = {}
    /\ msgBy = <<>>

NextLabels ==
    \/ Sidebar_Render
    \/ \E loaded \in BOOLEAN : Window_Render(loaded)

SpecLabels == InitLabels /\ [][NextLabels]_vars

----------------------------------------------------------------------------
(* Claims about the room labels *)

\* the participants of the rendered room that have a profile and are not the
\* current user
OtherThan(u) ==
    {k \in 1..Len(rendered.row.chat_participants) :
        /\ rendered.row.chat_participants[k].profiles # <<>>
        /\ rendered.row.chat_participants[k].profiles[1].user_id # u}

----------------------------------------------------------------------------
(* One chat window across changes of its chatRoomId prop and its unmount *)

SwitchRooms == {1, 2}    \* the rooms the window is switched between

\* messages present at start, put there by the service role: one in the direct
\* room, one in the group room
SwitchMsgs ==
    <<[chat_room_id |-> 1, sender_id |-> "B", content |-> <<"h">>, created_at |-> 0],
      [chat_room_id |-> 2, sender_id |-> "C", content |-> <<"h">>, created_at |-> 0]>>

\* the effect of u's window has run at most n times
SwitchesWithin(u, n) == Cardinality(Subscribes(chanLog'[u])) <= n

InitSwitch ==
    /\ rooms = SeedRooms({{"A", "B"}})
    /\ participants = SeedParticipants({{"A", "B"}})
    /\ InitDirectIdle
    /\ now = 0
    /\ msgs = SwitchMsgs
    /\ view = [u \in Viewers |-> ClosedView]
    /\ chans = {}
    /\ notes = {}
    /\ fetches = {}
    /\ sends = {}
    /\ lastSend = NoSend
    /\ lastRefetch = NoRefetch
    /\ profiles = SeedProfiles
    /\ InitAuthIdle
    /\ signups = <<>>
    /\ uncommitted = {}
    /\ sidebar = <<>>
    /\ sideFetches = EmptyBag
    /\ rendered = <<>>
    /\ chanLog = [u \in Viewers |-> <<>>]
    /\ closed = {}
    /\ msgBy = [i \in 1..Len(SwitchMsgs) |->
                   [caller |-> ServiceRole, member |-> FALSE, watched |-> {}]]

\* the windows are switched between the rooms and unmounted; their requests
\* reach the store
NextSwitch ==
    \/ \E u \in Viewers, r \in SwitchRooms :
           SelectChat(u, r) /\ SwitchesWithin(u, MaxSwitches)
    \/ \E c \in chans : Subscribed(c)
    \/ \E u \in Viewers : Unmount(u)
    \/ \E f \in fetches : FetchMessages_Query(f, TRUE)

SpecSwitch == InitSwitch /\ [][NextSwitch]_vars

----------------------------------------------------------------------------
(* Claims about the window's subscription and its stale reads *)

\* in the log of one window every subscribe is followed at once by the remove of
\* the same room, except a last one whose channel is the window's only channel,
\* and every remove follows the subscribe of the same room
RemovedOnce(u) ==
    LET log == chanLog[u]
    IN \A k \in 1..Len(log) :
           IF log[k].ev = "subscribe"
           THEN IF k < Len(log)
                THEN log[k + 1] = ChanEvent("remove", log[k].room)
                ELSE \E c \in chans : c.owner = u /\ c.room = log[k].room
           ELSE k > 1 /\ log[k - 1] = ChanEvent("subscribe", log[k].room)

\* C22: across any sequence of switches and the unmount, every subscription a
\* window opened is removed exactly once (when the window switches away or is
\* unmounted), a window has at most one subscription at any time, and that one is
\* for the room the window shows.
C22_OneSubscriptionPerView ==
    \A u \in Viewers :
        /\ RemovedOnce(u)
        /\ Cardinality({c \in chans : c.owner = u}) <= 1
        /\ \A c \in chans :
               c.owner = u => (u \notin closed /\ c.room = view[u].chatRoomId)
        /\ u \in closed => (chanLog[u] = <<>> \/ chanLog[u][Len(chanLog[u])].ev = "remove")

\* A's window was switched from room 1 to room 2 and back and then unmounted:
\* three subscribes, three removes
C22_Witness ==
    /\ "A" \in closed
    /\ chanLog["A"] = <<ChanEvent("subscribe", 1), ChanEvent("remove", 1),
                        ChanEvent("subscribe", 2), ChanEvent("remove", 2),
                        ChanEvent("subscribe", 1), ChanEvent("remove", 1)>>

\* C27: after the window's room changed and every fetchMessages call of the
\* window has settled, all messages the window shows belong to the room it shows
\* now: a fetch started for the previous room that settles after the switch (or
\* after the new room's fetch) does not put that room's messages in the list.
C27_SettledListIsOfSelectedRoom ==
    \A u \in Viewers :
        (/\ view[u].chatRoomId # NoRoom
         /\ Cardinality(Subscribes(chanLog[u])) >= 2
         /\ \A f \in fetches : f.owner # u)
            => \A k \in 1..Len(view[u].messages) :
                   view[u].messages[k].chat_room_id = view[u].chatRoomId

----------------------------------------------------------------------------
(* Claims about sendMessage and the insert policy of messages *)

Outstanding(u) == {req \in sends : req.by = u}

\* C23: a window has at most one message insert outstanding: a sendMessage call
\* made while the previous send has not completed issues no insert, and sending
\* is released when the send completes, whether the insert succeeded, returned
\* an error or threw.
C23_OneSendInFlight ==
    /\ [](\A u \in Viewers :
              /\ Cardinality(Outstanding(u)) <= 1
              /\ view[u].sending <=> Outstanding(u) # {})
    /\ [][/\ \A u \in Typists :
                 (SendMessage(u) /\ view[u].sending)
                     => (sends' = sends /\ msgs' = msgs /\ ~lastSend'.issued)
          /\ \A req \in sends, how \in {"ok", "error", "throw"} :
                 SendMessage_Resolve(req, how)
                     => (~view'[req.by].sending /\ Outstanding(req.by)' = {})]_vars

\* sendMessage was called with a text while the insert of the previous call was
\* outstanding, and issued nothing
C23_Witness ==
    /\ lastSend.by = "A"
    /\ Trim(lastSend.text) # <<>>
    /\ ~lastSend.issued
    /\ view["A"].sending
    /\ Cardinality(Outstanding("A")) = 1

\* C30: when the insert has answered, the input is cleared exactly when a row was
\* added; when the insert is rejected, answers with an error or throws, the input
\* keeps its text and no row is added; sendMessage itself never changes the
\* displayed list.
C30_InputClearedOnlyOnSuccess ==
    [][\A req \in sends, how \in {"ok", "error", "throw"} :
           SendMessage_Resolve(req, how)
               => LET added == Len(msgs') > Len(msgs)
                  IN /\ how # "ok" => (~added /\ msgs' = msgs)
                     /\ added => view'[req.by].newMessage = <<>>
                     /\ ~added => view'[req.by].newMessage = view[req.by].newMessage
                     /\ view'[req.by].messages = view[req.by].messages]_vars

\* a send was issued and failed: nothing is outstanding, no row exists, and the
\* input still holds the text
C30_Witness ==
    /\ lastSend = [by |-> "A", text |-> <<" ", "h", "\n">>, issued |-> TRUE]
    /\ sends = {}
    /\ msgs = <<>>
    /\ ~view["A"].sending
    /\ view["A"].newMessage = <<" ", "h", "\n">>

----------------------------------------------------------------------------
(* The store under insert requests of any client, beside A's chat window *)

NextStore ==
    \/ \E uid \in Users, r \in SwitchRooms, s \in Users :
           Store_InsertMessage(uid, r, s) /\ RowsWithin(MaxListed)
    \/ \E uid \in Users, r \in SwitchRooms : Store_Join(uid, r)
    \/ \E u \in Typists, r \in ChatRooms : SelectChat(u, r) /\ FetchesWithin(MaxFetch)
    \/ \E c \in chans : Subscribed(c)
    \/ \E u \in Typists : TypeText(u, <<" ", "h", "\n">>)
    \/ \E u \in Typists : SendMessage(u) /\ Within(MaxListed)
    \/ \E req \in sends, how \in {"ok", "error", "throw"} : SendMessage_Resolve(req, how)
    \/ Tick

SpecStore == InitChat /\ [][NextStore]_vars

Refused(u) == lastSend.by = u /\ ~lastSend.issued

\* C24: every row of messages was inserted by a request of the identity that is
\* its sender_id, and that identity had a participant row of the row's room when
\* it was inserted; an insert request of a non-participant, or one that names
\* another identity as sender, adds no row.
C24_RowsInsertedByParticipantAsSelf ==
    /\ [](/\ Len(msgBy) = Len(msgs)
          /\ \A i \in 1..Len(msgs) :
                 msgBy[i].caller = msgs[i].sender_id /\ msgBy[i].member)
    /\ [][\A uid \in Users, r \in SwitchRooms, s \in Users :
              (Store_InsertMessage(uid, r, s)
                   /\ (uid # s \/ <<r, uid>> \notin participants))
                  => (msgs' = msgs /\ ~lastSend'.issued)]_vars

\* C has joined room 2 and not room 1, and the last request, of C for itself into
\* room 1, was refused
C24_Witness ==
    /\ Refused("C")
    /\ <<2, "C">> \in participants
    /\ <<1, "C">> \notin participants
    /\ msgs = <<>>

----------------------------------------------------------------------------
(* The reads of A's chat window and of B's sidebar, failing or not *)

\* What fetchMessages and fetchChatRooms do after their awaits depends on the
\* answer and on the list the component holds. They are followed here from the
\* lists a setMessages or setChatRooms of an earlier answer with rows leaves, with
\* a request of each function in flight. (The store as deployed gives no client
\* such an answer, see Expands: there both lists are empty at every failure.)

\* A's window has been switched from room 2 to room 1: it holds the initial list
\* or still the list of room 2, its channel is joined, and its fetchMessages
\* call awaits the messages query or (that query answered with the row of room
\* 1) the profiles query. B's sidebar holds the initial list or its two rooms,
\* with a fetchChatRooms call in flight.
InitReads ==
    /\ rooms = DirectoryRooms
    /\ participants = UNION {{<<r, u>> : u \in DirectoryMembers[r]} :
                                 r \in 1..Len(DirectoryMembers)}
    /\ InitDirectIdle
    /\ now = 0
    /\ msgs = SwitchMsgs
    /\ \E shown \in {<<>>, Formatted(SwitchMsgs, SeedProfiles, <<2>>)} :
           view = [u \in Viewers |->
                      IF u = "A" THEN [ClosedView EXCEPT !.chatRoomId = 1,
                                                         !.messages = shown]
                      ELSE ClosedView]
    /\ chans = {[owner |-> "A", room |-> 1, state |-> "joined"]}
    /\ notes = {}
    /\ \E f \in {NewFetch("A", 1, 0, 2),
                  [NewFetch("A", 1, 0, 2) EXCEPT !.phase = "profiles", !.data = <<1>>]} :
           fetches = {f}
    /\ sends = {}
    /\ lastSend = NoSend
    /\ lastRefetch = NoRefetch
    /\ profiles = SeedProfiles
    /\ InitAuthIdle
    /\ signups = <<>>
    /\ uncommitted = {}
    /\ LET formattedRooms ==
               [k \in 1..2 |->
                   [id |-> 3 - k,
                    is_group |-> DirectoryRooms[3 - k].is_group,
                    updated_at |-> DirectoryRooms[3 - k].updated_at,
                    participants |-> DirectoryMembers[3 - k],
                    last_message |-> <<>>]]
       IN \E list \in {<<>>, formattedRooms} :
              sidebar = [u \in Watchers |->
                            [user |-> u, chatRooms |-> list, profiles |-> {}]]
    /\ sideFetches = SetToBag({SideFetch("B", "fetchChatRooms")})
    /\ rendered = <<>>
    /\ chanLog = [u \in Viewers |->
                     IF u = "A"
                     THEN <<ChanEvent("subscribe", 2), ChanEvent("remove", 2),
                            ChanEvent("subscribe", 1)>>
                     ELSE <<>>]
    /\ closed = {}
    /\ msgBy = [i \in 1..Len(SwitchMsgs) |->
                   [caller |-> ServiceRole, member |-> FALSE, watched |-> {}]]

\* the requests in flight are answered, with or without an error; the window is
\* switched between the rooms and the sidebar's effect runs again
NextReads ==
    \/ \E u \in Typists, r \in SwitchRooms :
           SelectChat(u, r) /\ FetchesWithin(MaxFetch) /\ SwitchesWithin(u, MaxSwitches)
    \/ \E c \in chans : Subscribed(c)
    \/ \E f \in fetches, ok \in BOOLEAN : FetchMessages_Query(f, ok)
    \/ \E f \in fetches, ok \in BOOLEAN : FetchMessages_Profiles(f, ok)
    \/ \E u \in Watchers : Sidebar_UserChanged(u) /\ RequestsWithin(MaxRequests)
    \/ \E f \in BagToSet(sideFetches), ok \in BOOLEAN : FetchChatRooms_Resolve(f, ok)
    \/ \E f \in BagToSet(sideFetches), ok \in BOOLEAN : FetchProfiles_Resolve(f, ok)

SpecReads == InitReads /\ [][NextReads]_vars

\* C25: a failed read leaves what the view shows as it was: a fetchChatRooms
\* whose query fails does not change the conversation list, and a fetchMessages
\* whose messages query or sender-profiles query fails does not change the
\* displayed messages.
C25_FailedReadKeepsState ==
    [][/\ \A f \in BagToSet(sideFetches) :
              FetchChatRooms_Resolve(f, FALSE) => sidebar' = sidebar
       /\ \A f \in fetches :
              (FetchMessages_Query(f, FALSE) \/ FetchMessages_Profiles(f, FALSE))
                  => view' = view]_vars

\* the requests of A's window and of B's sidebar have been answered, the window
\* has stayed on room 1, and both still show the lists they held: the window
\* the message of room 2 (not that of room 1, which a successful fetchMessages
\* sets) and the sidebar its two rooms
C25_Witness ==
    /\ fetches = {}
    /\ sideFetches = EmptyBag
    /\ view["A"].chatRoomId = 1
    /\ Len(chanLog["A"]) = 3
    /\ view["A"].messages = Formatted(SwitchMsgs, SeedProfiles, <<2>>)
    /\ Len(sidebar["B"].chatRooms) = 2

----------------------------------------------------------------------------
(* The hook when every awaited offline write is applied *)

NextOffline ==
    \/ UseAuth_Effect
    \/ \E fresh \in BOOLEAN : UseAuth_AuthStateChange(fresh)
    \/ \E u \in Users : UseAuth_Timeout(u)
    \/ Provider_GetSession
    \/ \E fresh \in BOOLEAN : UseAuth_GetSession(fresh) /\ RpcsWithin(MaxRpcs)
    \/ \E r \in BagToSet(rpcs) : Rpc_Apply(r)
    \/ \E k \in Calls : SignOut_Call(k)
    \/ \E k \in Calls : SignOut_Presence(k, "ok")
    \/ \E k \in Calls : SignOut_Provider(k)
    \/ Provider_SignIn

SpecOffline == InitAuth /\ [][NextOffline]_vars

\* nothing of the hook is pending: no effect run, callback, timer, request or
\* signOut call
AuthQuiet ==
    /\ ~auth.due
    /\ auth.probes = 0
    /\ auth.results = <<>>
    /\ auth.timers = EmptyBag
    /\ auth.events = <<>>
    /\ rpcs = EmptyBag
    /\ \A k \in Calls : auth.so[k].pc = "idle"

\* the signOut call that ended last was made with the identity of Me set, and
\* nobody has signed in since
SignedOut ==
    /\ session = NoUser
    /\ authLog # <<>>
    /\ authLog[Len(authLog)] = Logged(authLog[Len(authLog)].call, "invalidated", Me)

\* C26: once signOut has completed for a signed-in user, every presence write the
\* client issued has been applied and nobody has signed in again, the profile is
\* offline, although online writes of the timer callback and of the session probe
\* may be issued or applied around the offline write.
C26_SignedOutIsOffline ==
    (SignedOut /\ AuthQuiet) => ~profiles[Me].is_online

----------------------------------------------------------------------------
(* B's chat window kept on one room while rows are inserted by the service
   role; every request reaches the store *)

Readers == {"B"}    \* the clients whose window only reads

NextLive ==
    \/ \E u \in Readers, r \in ChatRooms : SelectChat(u, r)
    \/ \E c \in chans : Subscribed(c)
    \/ \E r \in ChatRooms, s \in Users :
           Store_InsertMessage(ServiceRole, r, s) /\ RowsWithin(MaxListed)
    \/ Tick
    \/ \E f \in fetches : FetchMessages_Query(f, TRUE)

SpecLive == InitChat /\ [][NextLive]_vars

\* the channel is acknowledged and requests that are out are answered
SpecLiveFair ==
    /\ SpecLive
    /\ WF_vars(\E c \in chans : Subscribed(c))
    /\ WF_vars(\E f \in fetches : FetchMessages_Query(f, TRUE))

----------------------------------------------------------------------------
(* Claims about live updates of one window *)

ShownIds(u) == {view[u].messages[k].id : k \in 1..Len(view[u].messages)}

\* C28: while a window stays on one room its list never loses a message it
\* showed: of the refetches that successive insert events started, one that
\* answers late with an older snapshot does not replace a newer list.
C28_ListNeverRegresses ==
    [][\A f \in fetches :
           (f.trigger # 0 /\ FetchMessages_Profiles(f, TRUE))
               => ShownIds(f.owner) \subseteq ShownIds(f.owner)']_vars

\* C29: every message inserted into the room of a window that is open on it is
\* eventually shown by that window, even if no later message follows.
C29_EveryMessageEventuallyShown ==
    \A m \in 1..MaxListed :
        (/\ Len(msgs) = m
         /\ "B" \in msgBy[m].watched
         /\ view["B"].chatRoomId = msgs[m].chat_room_id)
            ~> (m \in ShownIds("B") \/ Len(msgs) > m)

====
